---- MODULE Spec2Model ----
(***************************************************************************)
(* Model of the in-memory searcher of letmevibethatforyou/searchx          *)
(* (src/inmemory/inmemory.go): the document store guarded by a             *)
(* sync.RWMutex, the expression evaluator, the relevance scorer, the       *)
(* ranker and the paginating Search.                                       *)
(*                                                                         *)
(* Representation choices:                                                 *)
(*  - a Go string that is inspected character by character (queries,       *)
(*    string field values, rendered values) is a sequence of code points;  *)
(*    document ids and field names, which are only compared for equality   *)
(*    and used as map keys, are TLA+ strings;                              *)
(*  - an interface{} value is a record tagged by its dynamic type in k;    *)
(*  - a float64 is held in halves (h = 2 * value), which represents        *)
(*    exactly every float the model uses (k, k + 0.5, score * 1.5);        *)
(*  - the machine int is scaled down to the range MinInt..MaxInt and sums  *)
(*    and differences wrap around as they do in Go.                        *)
(***************************************************************************)
EXTENDS Integers, Sequences, FiniteSets, TLC

(***************************************************************************)
(* Bounds of the model.                                                    *)
(***************************************************************************)
\* the number of document ids the callers of the concurrent model use, hence
\* the largest number of documents its store holds
MaxDocs == 2
\* largest number of documents of a store of the pagination model
MaxPageDocs == 12
\* the largest machine int (2^63 - 1 in the program, scaled down)
MaxInt == 127

MinInt == -MaxInt - 1

\* two's complement wrap-around of an int result
WrapInt(x) == ((x - MinInt) % (2 * (MaxInt + 1))) + MinInt

(***************************************************************************)
(* Strings as sequences of code points.                                    *)
(***************************************************************************)
S_empty == << >>
S_go == <<103, 111>>
S_Go == <<71, 111>>
S_py == <<112, 121>>
S_space == <<32>>
S_go_py == <<103, 111, 32, 112, 121>>
S_true == <<116, 114, 117, 101>>
S_false == <<102, 97, 108, 115, 101>>
S_nil == <<60, 110, 105, 108, 62>>
S_map == <<109, 97, 112>>
S_NaN == <<78, 97, 78>>
S_2 == <<50>>
S_1a == <<49, 97>>
S_tab_space == <<9, 32>>
S_go_go == <<103, 111, 32, 103, 111>>
S_go_go_py == <<103, 111, 32, 103, 111, 32, 112, 121>>
S_GO_Py == <<71, 79, 32, 80, 121>>
S_padded_go_py == <<32, 103, 111, 32, 32, 112, 121, 32>>
S_go_2 == <<103, 111, 32, 50>>

\* unicode.IsSpace on the code points the model uses
IsSpace(c) == c \in {9, 10, 11, 12, 13, 32, 133, 160}

\* strings.ToLower
ToLower(s) == [i \in 1..Len(s) |-> IF s[i] \in 65..90 THEN s[i] + 32 ELSE s[i]]

\* strings.Contains
Contains(s, t) == \E i \in 0..(Len(s) - Len(t)) : SubSeq(s, i + 1, i + Len(t)) = t

\* strings.Compare: -1, 0 or 1 by lexicographic order of the code points
RECURSIVE StrCompare(_, _)
StrCompare(a, b) ==
    IF a = << >> /\ b = << >> THEN 0
    ELSE IF a = << >> THEN -1
    ELSE IF b = << >> THEN 1
    ELSE IF Head(a) < Head(b) THEN -1
    ELSE IF Head(a) > Head(b) THEN 1
    ELSE StrCompare(Tail(a), Tail(b))

\* strings.Fields: the maximal runs of non-space characters, in order
RECURSIVE FieldsFrom(_, _, _)
FieldsFrom(s, cur, acc) ==
    IF s = << >> THEN (IF cur = << >> THEN acc ELSE Append(acc, cur))
    ELSE IF IsSpace(Head(s))
         THEN FieldsFrom(Tail(s), << >>, IF cur = << >> THEN acc ELSE Append(acc, cur))
         ELSE FieldsFrom(Tail(s), Append(cur, Head(s)), acc)

StrFields(s) == FieldsFrom(s, << >>, << >>)

\* decimal digits of a natural number
RECURSIVE Digits(_)
Digits(n) == IF n < 10 THEN <<48 + n>> ELSE Digits(n \div 10) \o <<48 + (n % 10)>>

\* strconv.Itoa
Itoa(n) == IF n < 0 THEN <<45>> \o Digits(-n) ELSE Digits(n)

(***************************************************************************)
(* interface{} values.                                                     *)
(***************************************************************************)
VNil == [k |-> "nil"]
VBool(b) == [k |-> "bool", b |-> b]
VInt(n) == [k |-> "int", n |-> n]
\* a float64 of value h / 2
VFloat(h) == [k |-> "float", h |-> h]
\* math.NaN(): the float64 that is not less than, greater than or equal to
\* any float64, itself included
VNaN == [k |-> "float", nan |-> TRUE]
VStr(s) == [k |-> "str", s |-> s]
\* []interface{}
VList(xs) == [k |-> "list", xs |-> xs]
\* map[string]interface{}: a function from keys (code point strings) to values
VMap(m) == [k |-> "map", m |-> m]

\* the smallest key of a non-empty set of keys, by strings.Compare
MinKey(ks) == CHOOSE x \in ks : \A y \in ks : StrCompare(x, y) <= 0

\* a float64 under %v (shortest decimal form; the model's floats are halves)
FormatFloat(h) ==
    LET a == IF h < 0 THEN -h ELSE h
        sign == IF h < 0 THEN <<45>> ELSE << >>
    IN sign \o Digits(a \div 2) \o (IF a % 2 = 1 THEN <<46, 53>> ELSE << >>)

\* fmt.Sprintf("%v", v)
RECURSIVE Sprintv(_)
RECURSIVE SprintList(_)
RECURSIVE SprintMap(_, _)
Sprintv(v) ==
    CASE v.k = "nil" -> S_nil
      [] v.k = "bool" -> (IF v.b THEN S_true ELSE S_false)
      [] v.k = "int" -> Itoa(v.n)
      [] v.k = "float" -> (IF "nan" \in DOMAIN v THEN S_NaN ELSE FormatFloat(v.h))
      [] v.k = "str" -> v.s
      [] v.k = "list" -> <<91>> \o SprintList(v.xs) \o <<93>>
      [] v.k = "map" -> S_map \o <<91>> \o SprintMap(v.m, DOMAIN v.m) \o <<93>>

SprintList(xs) ==
    IF xs = << >> THEN << >>
    ELSE IF Len(xs) = 1 THEN Sprintv(xs[1])
    ELSE Sprintv(xs[1]) \o <<32>> \o SprintList(Tail(xs))

SprintMap(m, ks) ==
    IF ks = {} THEN << >>
    ELSE LET key == MinKey(ks)
             rest == ks \ {key}
         IN key \o <<58>> \o Sprintv(m[key])
            \o (IF rest = {} THEN << >> ELSE <<32>> \o SprintMap(m, rest))

\* toFloat64: the value as a float64 (in halves, or NaN) and whether it is
\* numeric
toFloat64(v) ==
    CASE v.k = "float" ->
            (IF "nan" \in DOMAIN v THEN [f |-> 0, nan |-> TRUE, ok |-> TRUE]
             ELSE [f |-> v.h, nan |-> FALSE, ok |-> TRUE])
      [] v.k = "int" -> [f |-> 2 * v.n, nan |-> FALSE, ok |-> TRUE]
      [] OTHER -> [f |-> 0, nan |-> FALSE, ok |-> FALSE]

\* f1 < f2 and f1 == f2 on float64: false when either is NaN
FloatLess(x, y) == ~x.nan /\ ~y.nan /\ x.f < y.f
FloatEqual(x, y) == ~x.nan /\ ~y.nan /\ x.f = y.f

\* an ordering that compares the renderings of numbers too
compareValues_StringsOnly(v1, v2) ==
    IF v1 = VNil /\ v2 = VNil THEN 0
    ELSE IF v1 = VNil THEN -1
    ELSE IF v2 = VNil THEN 1
    ELSE StrCompare(Sprintv(v1), Sprintv(v2))

\* compareValues: the ordering used by the sort and by Gt, Gte, Lt, Lte, Range
compareValues(v1, v2) ==
    IF v1 = VNil /\ v2 = VNil THEN 0
    ELSE IF v1 = VNil THEN -1
    ELSE IF v2 = VNil THEN 1
    ELSE IF toFloat64(v1).ok /\ toFloat64(v2).ok
         THEN (IF FloatLess(toFloat64(v1), toFloat64(v2)) THEN -1
               ELSE IF FloatLess(toFloat64(v2), toFloat64(v1)) THEN 1
               ELSE 0)
         ELSE StrCompare(Sprintv(v1), Sprintv(v2))

\* compareEqual: the equality used by Eq and Ne
compareEqual(v1, v2) ==
    IF v1 = VNil \/ v2 = VNil THEN v1 = v2
    ELSE IF toFloat64(v1).ok /\ toFloat64(v2).ok
         THEN FloatEqual(toFloat64(v1), toFloat64(v2))
         ELSE Sprintv(v1) = Sprintv(v2)

(***************************************************************************)
(* Documents, expressions and search options.                              *)
(***************************************************************************)
\* Document{ID, Fields}; Fields is a function from field names to values
\* (a nil map reads like the empty map)
Document(id, fields) == [ID |-> id, Fields |-> fields]

NoFields == [f \in {} |-> VNil]

\* doc.Fields[name]: the zero value nil when the key is missing
FieldValue(doc, name) == IF name \in DOMAIN doc.Fields THEN doc.Fields[name] ELSE VNil

And(exprs) == [t |-> "And", Exprs |-> exprs]
Or(exprs) == [t |-> "Or", Exprs |-> exprs]
Not(e) == [t |-> "Not", Inner |-> e]
Eq(field, value) == [t |-> "Eq", Field |-> field, Value |-> value]
Ne(field, value) == [t |-> "Ne", Field |-> field, Value |-> value]
Gt(field, value) == [t |-> "Gt", Field |-> field, Value |-> value]
Gte(field, value) == [t |-> "Gte", Field |-> field, Value |-> value]
Lt(field, value) == [t |-> "Lt", Field |-> field, Value |-> value]
Lte(field, value) == [t |-> "Lte", Field |-> field, Value |-> value]
Range(field, min, max) == [t |-> "Range", Field |-> field, Min |-> min, Max |-> max]
Exists(field) == [t |-> "Exists", Field |-> field]
\* an Expression of a type the evaluator's switch does not list
UnknownExpr == [t |-> "Unknown"]
\* the nil Expression, and a pointer to an expression (&EqExpr{...})
NilExpr == [t |-> "nil"]
PtrTo(e) == [t |-> "ptr", Elem |-> e]

WithLimit(n) == [o |-> "WithLimit", n |-> n]
WithOffset(n) == [o |-> "WithOffset", n |-> n]
WithSort(field, desc) == [o |-> "WithSort", Field |-> field, Desc |-> desc]

\* &searchx.SearchConfig{}
SearchConfig == [Limit |-> 0, Offset |-> 0, Sort |-> << >>, Filters |-> << >>]

\* an Apply that registers a pointer as it is
Apply_KeepPointer(opt, cfg) ==
    IF "o" \in DOMAIN opt
    THEN CASE opt.o = "WithLimit" -> [cfg EXCEPT !.Limit = opt.n]
           [] opt.o = "WithOffset" -> [cfg EXCEPT !.Offset = opt.n]
           [] opt.o = "WithSort" ->
                [cfg EXCEPT !.Sort = Append(@, [Field |-> opt.Field, Desc |-> opt.Desc])]
    ELSE [cfg EXCEPT !.Filters = Append(@, opt)]

\* opt.Apply(cfg).  The Apply methods of the expressions have value
\* receivers and append the receiver: called through a pointer, they append
\* the expression it points to.
Apply(opt, cfg) ==
    IF "o" \in DOMAIN opt
    THEN CASE opt.o = "WithLimit" -> [cfg EXCEPT !.Limit = opt.n]
           [] opt.o = "WithOffset" -> [cfg EXCEPT !.Offset = opt.n]
           [] opt.o = "WithSort" ->
                [cfg EXCEPT !.Sort = Append(@, [Field |-> opt.Field, Desc |-> opt.Desc])]
    ELSE IF opt.t = "ptr" THEN [cfg EXCEPT !.Filters = Append(@, opt.Elem)]
    ELSE [cfg EXCEPT !.Filters = Append(@, opt)]

\* opt.Apply(cfg) on a nil option is a call on a nil interface: it panics
applyPanics(opts) == \E i \in 1..Len(opts) : opts[i] = NilExpr

\* for _, opt := range opts { opt.Apply(cfg) }
RECURSIVE ApplyAll(_, _)
ApplyAll(opts, cfg) ==
    IF opts = << >> THEN cfg ELSE ApplyAll(Tail(opts), Apply(Head(opts), cfg))

\* the default limit of Search
DefaultLimit == 10

\* a Search that applies no default limit
SetDefaults_None(cfg) == cfg

\* if cfg.Limit == 0 { cfg.Limit = 10 }
SetDefaults(cfg) == IF cfg.Limit = 0 THEN [cfg EXCEPT !.Limit = DefaultLimit] ELSE cfg

\* the configuration Search works with
ParseOptions(opts) == SetDefaults(ApplyAll(opts, SearchConfig))

(***************************************************************************)
(* Expression evaluator.                                                   *)
(***************************************************************************)
evaluateEq(doc, e) ==
    IF e.Field \notin DOMAIN doc.Fields THEN e.Value = VNil
    ELSE compareEqual(doc.Fields[e.Field], e.Value)

\* a Ne that is false whenever the field is missing
evaluateNe_AbsentFalse(doc, e) ==
    IF e.Field \notin DOMAIN doc.Fields THEN FALSE
    ELSE ~compareEqual(doc.Fields[e.Field], e.Value)

evaluateNe(doc, e) ==
    IF e.Field \notin DOMAIN doc.Fields THEN e.Value # VNil
    ELSE ~compareEqual(doc.Fields[e.Field], e.Value)

evaluateGt(doc, e) ==
    IF e.Field \notin DOMAIN doc.Fields THEN FALSE
    ELSE compareValues(doc.Fields[e.Field], e.Value) > 0

evaluateGte(doc, e) ==
    IF e.Field \notin DOMAIN doc.Fields THEN FALSE
    ELSE compareValues(doc.Fields[e.Field], e.Value) >= 0

\* a Lt that compares the zero value of a missing field
evaluateLt_ZeroValue(doc, e) == compareValues(FieldValue(doc, e.Field), e.Value) < 0

evaluateLt(doc, e) ==
    IF e.Field \notin DOMAIN doc.Fields THEN FALSE
    ELSE compareValues(doc.Fields[e.Field], e.Value) < 0

evaluateLte(doc, e) ==
    IF e.Field \notin DOMAIN doc.Fields THEN FALSE
    ELSE compareValues(doc.Fields[e.Field], e.Value) <= 0

\* a Range that excludes its upper bound
evaluateRange_ExclusiveMax(doc, e) ==
    IF e.Field \notin DOMAIN doc.Fields THEN FALSE
    ELSE IF e.Min # VNil /\ compareValues(doc.Fields[e.Field], e.Min) < 0 THEN FALSE
    ELSE IF e.Max # VNil /\ compareValues(doc.Fields[e.Field], e.Max) >= 0 THEN FALSE
    ELSE TRUE

evaluateRange(doc, e) ==
    IF e.Field \notin DOMAIN doc.Fields THEN FALSE
    ELSE IF e.Min # VNil /\ compareValues(doc.Fields[e.Field], e.Min) < 0 THEN FALSE
    ELSE IF e.Max # VNil /\ compareValues(doc.Fields[e.Field], e.Max) > 0 THEN FALSE
    ELSE TRUE

evaluateExists(doc, e) == e.Field \in DOMAIN doc.Fields

RECURSIVE evaluateExpression(_, _)
\* an And that is false when it has no operands
evaluateAnd_EmptyFalse(doc, e) ==
    /\ Len(e.Exprs) > 0
    /\ \A i \in 1..Len(e.Exprs) : evaluateExpression(doc, e.Exprs[i])

evaluateAnd(doc, e) == \A i \in 1..Len(e.Exprs) : evaluateExpression(doc, e.Exprs[i])

evaluateOr(doc, e) == \E i \in 1..Len(e.Exprs) : evaluateExpression(doc, e.Exprs[i])

evaluateNot(doc, e) == ~evaluateExpression(doc, e.Inner)

evaluateExpression(doc, e) ==
    CASE e.t = "And" -> evaluateAnd(doc, e)
      [] e.t = "Or" -> evaluateOr(doc, e)
      [] e.t = "Not" -> evaluateNot(doc, e)
      [] e.t = "Eq" -> evaluateEq(doc, e)
      [] e.t = "Ne" -> evaluateNe(doc, e)
      [] e.t = "Gt" -> evaluateGt(doc, e)
      [] e.t = "Gte" -> evaluateGte(doc, e)
      [] e.t = "Lt" -> evaluateLt(doc, e)
      [] e.t = "Lte" -> evaluateLte(doc, e)
      [] e.t = "Range" -> evaluateRange(doc, e)
      [] e.t = "Exists" -> evaluateExists(doc, e)
      [] OTHER -> TRUE

\* matchesFilters: every filter of the configuration admits the document
matchesFilters(doc, filters) ==
    \A i \in 1..Len(filters) : evaluateExpression(doc, filters[i])

(***************************************************************************)
(* Relevance scorer.  Scores are float64 held in halves.                   *)
(***************************************************************************)
RECURSIVE valueContainsTerm(_, _)
valueContainsTerm(v, term) ==
    CASE v.k = "str" -> Contains(ToLower(v.s), term)
      [] v.k = "list" -> \E i \in 1..Len(v.xs) : valueContainsTerm(v.xs[i], term)
      [] v.k = "map" -> \E key \in DOMAIN v.m : valueContainsTerm(v.m[key], term)
      [] OTHER -> Contains(ToLower(Sprintv(v)), term)

\* a count that is 1 when any field contains the term
TermHits_AnyField(doc, term) ==
    IF \E f \in DOMAIN doc.Fields : valueContainsTerm(doc.Fields[f], term) THEN 1 ELSE 0

\* the number of top-level fields of the document whose value contains the term
TermHits(doc, term) ==
    Cardinality({f \in DOMAIN doc.Fields : valueContainsTerm(doc.Fields[f], term)})

RECURSIVE SumHits(_, _)
SumHits(doc, terms) ==
    IF terms = << >> THEN 0 ELSE TermHits(doc, Head(terms)) + SumHits(doc, Tail(terms))

\* a score without the boost for matching every term
scoreDocument_NoBoost(doc, query) ==
    IF query = << >> THEN 2
    ELSE LET terms == StrFields(ToLower(query))
             matchedTerms == Cardinality({i \in 1..Len(terms) : TermHits(doc, terms[i]) > 0})
         IN IF Len(terms) = 0 THEN 2
            ELSE IF matchedTerms = 0 THEN 0
            ELSE 2 * SumHits(doc, terms)

scoreDocument(doc, query) ==
    IF query = << >> THEN 2
    ELSE LET terms == StrFields(ToLower(query))
             matchedTerms == Cardinality({i \in 1..Len(terms) : TermHits(doc, terms[i]) > 0})
             score == 2 * SumHits(doc, terms)
         IN IF Len(terms) = 0 THEN 2
            ELSE IF matchedTerms = 0 THEN 0
            ELSE IF matchedTerms = Len(terms) THEN (score * 3) \div 2
            ELSE score

\* scoredDocument{document, score}
scoredDocument(doc, score) == [document |-> doc, score |-> score]

(***************************************************************************)
(* Ranker.                                                                 *)
(***************************************************************************)
\* the less function of the sort with explicit sort fields: a before b
RECURSIVE lessByFields(_, _, _)
\* a less function that sorts every field ascending
lessByFields_IgnoreDesc(a, b, sortFields) ==
    IF sortFields = << >> THEN FALSE
    ELSE LET sf == Head(sortFields)
             cmp == compareValues(FieldValue(a.document, sf.Field),
                                  FieldValue(b.document, sf.Field))
         IN IF sf.Field = "_score"
            THEN IF a.score # b.score
                 THEN (IF sf.Desc THEN a.score > b.score ELSE a.score < b.score)
                 ELSE lessByFields(a, b, Tail(sortFields))
            ELSE IF cmp # 0
                 THEN cmp < 0
                 ELSE lessByFields(a, b, Tail(sortFields))

lessByFields(a, b, sortFields) ==
    IF sortFields = << >> THEN FALSE
    ELSE LET sf == Head(sortFields)
             cmp == compareValues(FieldValue(a.document, sf.Field),
                                  FieldValue(b.document, sf.Field))
         IN IF sf.Field = "_score"
            THEN IF a.score # b.score
                 THEN (IF sf.Desc THEN a.score > b.score ELSE a.score < b.score)
                 ELSE lessByFields(a, b, Tail(sortFields))
            ELSE IF cmp # 0
                 THEN (IF sf.Desc THEN cmp > 0 ELSE cmp < 0)
                 ELSE lessByFields(a, b, Tail(sortFields))

\* a less function that ranks by score whatever the sort fields
less_ScoreOnly(a, b, sortFields) == a.score > b.score

\* the less function sortMatches hands to sort.Slice
less(a, b, sortFields) ==
    IF Len(sortFields) = 0 THEN a.score > b.score
    ELSE lessByFields(a, b, sortFields)

(***************************************************************************)
(* sort.Slice(matches, less).  The sort moves the elements about and asks  *)
(* less for pairs of positions.  Here the slice being sorted is the list s *)
(* of the elements' places in matches as it was handed over, and lt is     *)
(* less on those places; the sorted matches are read off at the end.       *)
(* Positions are counted from 0, as in the code: data[i] is s[i + 1], and  *)
(* data[a:b] are the positions a..b-1.                                     *)
(***************************************************************************)
\* sort.Slice sorts a slice of at most maxInsertion elements by insertion
\* sort, and a longer one by pattern-defeating quicksort (pdqsort_func)
maxInsertion == 12

\* less, for every two elements of matches
lessTable(matches, sortFields) ==
    [x \in 1..Len(matches) |->
        [y \in 1..Len(matches) |-> less(matches[x], matches[y], sortFields)]]

\* data.Less(i, j) and data.Swap(i, j)
lessAt(s, i, j, lt) == lt[s[i + 1]][s[j + 1]]
swapAt(s, i, j) == [s EXCEPT ![i + 1] = s[j + 1], ![j + 1] = s[i + 1]]

\* the inner loop of the insertion sort, on a list whose positions are
\* counted from 1:
\* for j := i; j > a && less(j, j-1); j-- { swap(j, j-1) }
RECURSIVE SinkLeft(_, _, _)
SinkLeft(s, j, lt) ==
    IF j > 1 /\ lt[s[j]][s[j - 1]]
    THEN SinkLeft([s EXCEPT ![j] = s[j - 1], ![j - 1] = s[j]], j - 1, lt)
    ELSE s

RECURSIVE InsertionSortFrom(_, _, _)
InsertionSortFrom(s, i, lt) ==
    IF i > Len(s) THEN s
    ELSE InsertionSortFrom(SinkLeft(s, i, lt), i + 1, lt)

\* insertionSort_func(data, a, b)
insertionSort_func(s, a, b, lt) ==
    SubSeq(s, 1, a) \o InsertionSortFrom(SubSeq(s, a + 1, b), 2, lt) \o SubSeq(s, b + 1, Len(s))

\* order2_func: the positions x, y in the order of their elements, and the
\* count of swaps
order2_func(s, x, y, swaps, lt) ==
    IF lessAt(s, y, x, lt) THEN [x |-> y, y |-> x, swaps |-> swaps + 1]
    ELSE [x |-> x, y |-> y, swaps |-> swaps]

\* choosePivot_func for 8 to 49 elements: the median of the elements at one,
\* two and three quarters, and whether the three were found in order
choosePivot_func(s, a, b, lt) ==
    LET l == b - a
        o1 == order2_func(s, a + (l \div 4) * 1, a + (l \div 4) * 2, 0, lt)
        o2 == order2_func(s, o1.y, a + (l \div 4) * 3, o1.swaps, lt)
        o3 == order2_func(s, o1.x, o2.x, o2.swaps, lt)
    IN [pivot |-> o3.y,
        hint |-> IF o3.swaps = 0 THEN "increasingHint" ELSE "unknownHint"]

\* partialInsertionSort_func on fewer than 50 elements: it moves nothing,
\* and reports whether data[a:b] is in order
partialInsertionSort_func(s, a, b, lt) ==
    \A i \in (a + 1)..(b - 1) : ~lessAt(s, i, i - 1, lt)

\* for i <= j && data.Less(i, a) { i++ }; in partitionEqual_func the
\* condition is !data.Less(a, i)
RECURSIVE skipLeft(_, _, _, _, _, _)
skipLeft(s, i, j, a, equal, lt) ==
    IF i <= j /\ (IF equal THEN ~lessAt(s, a, i, lt) ELSE lessAt(s, i, a, lt))
    THEN skipLeft(s, i + 1, j, a, equal, lt)
    ELSE i

\* for i <= j && !data.Less(j, a) { j-- }; in partitionEqual_func the
\* condition is data.Less(a, j)
RECURSIVE skipRight(_, _, _, _, _, _)
skipRight(s, i, j, a, equal, lt) ==
    IF i <= j /\ (IF equal THEN lessAt(s, a, j, lt) ELSE ~lessAt(s, j, a, lt))
    THEN skipRight(s, i, j - 1, a, equal, lt)
    ELSE j

\* the loop of partition_func and of partitionEqual_func: skip, and swap
\* the two elements found on the wrong sides, until the positions cross
RECURSIVE partitionLoop(_, _, _, _, _, _)
partitionLoop(s, i, j, a, equal, lt) ==
    LET i2 == skipLeft(s, i, j, a, equal, lt)
        j2 == skipRight(s, i2, j, a, equal, lt)
    IN IF i2 > j2 THEN [data |-> s, i |-> i2, j |-> j2]
       ELSE partitionLoop(swapAt(s, i2, j2), i2 + 1, j2 - 1, a, equal, lt)

\* partition_func: the pivot goes to the front, the elements less than it
\* to the left and the others to the right, and the pivot between them
partition_func(s, a, b, pivot, lt) ==
    LET d == swapAt(s, a, pivot)
        i == skipLeft(d, a + 1, b - 1, a, FALSE, lt)
        j == skipRight(d, i, b - 1, a, FALSE, lt)
        rest == partitionLoop(swapAt(d, i, j), i + 1, j - 1, a, FALSE, lt)
    IN IF i > j
       THEN [data |-> swapAt(d, j, a), mid |-> j, alreadyPartitioned |-> TRUE]
       ELSE [data |-> swapAt(rest.data, rest.j, a), mid |-> rest.j,
             alreadyPartitioned |-> FALSE]

\* partitionEqual_func: the elements equal to the pivot, then the greater
partitionEqual_func(s, a, b, pivot, lt) ==
    LET rest == partitionLoop(swapAt(s, a, pivot), a + 1, b - 1, a, TRUE, lt)
    IN [data |-> rest.data, mid |-> rest.i]

\* a call, or a turn of the loop, of pdqsort_func on data[a:b]
Range_ab(a, b, wasBalanced, wasPartitioned) ==
    [a |-> a, b |-> b, wasBalanced |-> wasBalanced, wasPartitioned |-> wasPartitioned]

\* one turn of the loop of pdqsort_func on the range r: the data after it,
\* and the ranges left to sort, first the one of the recursive call (the
\* shorter side), then the one the loop goes on with.  Left out:
\* breakPatterns_func and the heapsort fallback, which need a partition
\* that leaves more than maxInsertion elements on one side, 14 elements or
\* more; the reversal of a decreasing slice, for which choosePivot_func
\* must count 12 swaps, 50 elements or more.
pdqsortTurn(s, r, lt) ==
    LET a == r.a
        b == r.b
        chosen == choosePivot_func(s, a, b, lt)
        pivot == chosen.pivot
        eq == partitionEqual_func(s, a, b, pivot, lt)
        part == partition_func(s, a, b, pivot, lt)
        mid == part.mid
        balanceThreshold == (b - a) \div 8
    IN IF b - a <= maxInsertion
       THEN [data |-> insertionSort_func(s, a, b, lt), ranges |-> << >>]
       ELSE IF /\ r.wasBalanced /\ r.wasPartitioned /\ chosen.hint = "increasingHint"
               /\ partialInsertionSort_func(s, a, b, lt)
       THEN [data |-> s, ranges |-> << >>]
       ELSE IF a > 0 /\ ~lessAt(s, a - 1, pivot, lt)
       THEN [data |-> eq.data,
             ranges |-> <<Range_ab(eq.mid, b, r.wasBalanced, r.wasPartitioned)>>]
       ELSE IF mid - a < b - mid
       THEN [data |-> part.data,
             ranges |-> <<Range_ab(a, mid, TRUE, TRUE),
                          Range_ab(mid + 1, b, mid - a >= balanceThreshold,
                                   part.alreadyPartitioned)>>]
       ELSE [data |-> part.data,
             ranges |-> <<Range_ab(mid + 1, b, TRUE, TRUE),
                          Range_ab(a, mid, b - mid >= balanceThreshold,
                                   part.alreadyPartitioned)>>]

\* pdqsort_func: the turns of its loop and its recursive calls, in the
\* order in which they run
RECURSIVE pdqsort_func(_, _, _)
pdqsort_func(s, ranges, lt) ==
    IF ranges = << >> THEN s
    ELSE LET turn == pdqsortTurn(s, Head(ranges), lt)
         IN pdqsort_func(turn.data, turn.ranges \o Tail(ranges), lt)

\* the places 1..n of the elements before the sort, and in reverse
RECURSIVE Places(_)
Places(n) == IF n = 0 THEN << >> ELSE Append(Places(n - 1), n)

RECURSIVE PlacesFromLast(_)
PlacesFromLast(n) == IF n = 0 THEN << >> ELSE <<n>> \o PlacesFromLast(n - 1)

\* a sort that starts from the slice in reverse
sortSlice_FromLast(matches, sortFields) ==
    LET order == InsertionSortFrom(PlacesFromLast(Len(matches)), 2,
                                   lessTable(matches, sortFields))
    IN [i \in 1..Len(matches) |-> matches[order[i]]]

\* sort.Slice(matches, less)
sortSlice(matches, sortFields) ==
    LET order == pdqsort_func(Places(Len(matches)),
                              <<Range_ab(0, Len(matches), TRUE, TRUE)>>,
                              lessTable(matches, sortFields))
    IN [i \in 1..Len(matches) |-> matches[order[i]]]

\* sortMatches: sort.Slice with the less function above
sortMatches(matches, sortFields) == sortSlice(matches, sortFields)

(***************************************************************************)
(* Search, after the entry check: the scan and the assembly of the result. *)
(***************************************************************************)
\* a nil *int and a pointer to an int
NilPtr == << >>
Ptr(n) == <<n>>

\* what a call hands back: its results, or a panic that unwinds the call
Returned(res, err) == [panic |-> FALSE, res |-> res, err |-> err]
Panicked == [panic |-> TRUE]
NilResults == [nil |-> TRUE]

\* a scan that keeps the documents whose score is 0
scanDocument_KeepZeroScore(matches, doc, query, cfg) ==
    IF ~matchesFilters(doc, cfg.Filters) THEN matches
    ELSE Append(matches, scoredDocument(doc, scoreDocument(doc, query)))

\* the body of the scan loop for one document: filters, then score
scanDocument(matches, doc, query, cfg) ==
    IF ~matchesFilters(doc, cfg.Filters) THEN matches
    ELSE IF scoreDocument(doc, query) > 0
         THEN Append(matches, scoredDocument(doc, scoreDocument(doc, query)))
         ELSE matches

\* the scan loop over docs[i..], without cancellation
RECURSIVE scanFrom(_, _, _, _, _)
scanFrom(docs, i, matches, query, cfg) ==
    IF i > Len(docs) THEN matches
    ELSE scanFrom(docs, i + 1, scanDocument(matches, docs[i], query, cfg), query, cfg)

\* the largest capacity make([]searchx.Result, 0, n) accepts (the runtime's
\* allocation limit over the element size, far above any slice length and
\* far below the largest int)
maxSliceCap == MaxInt \div 2

\* a MaxScore that is the score of the first item of the page
MaxScoreOf_First(items, maxScore) ==
    IF items = << >> THEN maxScore ELSE Head(items).Score

\* maxScore after the loop over the page: the largest score seen
RECURSIVE MaxScoreOf(_, _)
MaxScoreOf(items, maxScore) ==
    IF items = << >> THEN maxScore
    ELSE MaxScoreOf(Tail(items), IF Head(items).Score > maxScore THEN Head(items).Score ELSE maxScore)

\* a page end that leaves out the offset
pageEnd_NoOffset(cfg) == cfg.Limit

\* end := cfg.Offset + cfg.Limit
pageEnd(cfg) == WrapInt(cfg.Offset + cfg.Limit)

\* if x > len(matches) { x = len(matches) }
clampToLen(x, n) == IF x > n THEN n ELSE x

\* a NextOffset that is also set on an exactly full last page
nextOffset_Inclusive(end, n) == IF end <= n THEN Ptr(end) ELSE NilPtr

\* if end < len(matches) { results.NextOffset = &end }
nextOffset(end, n) == IF end < n THEN Ptr(end) ELSE NilPtr

\* results that never name a next page
pageResults_LastPage(matches, query, cfg) ==
    Returned([Items |-> SubSeq([i \in 1..Len(matches) |-> 
                                  [ID |-> matches[i].document.ID,
                                   Score |-> matches[i].score,
                                   Fields |-> matches[i].document.Fields]],
                               1, clampToLen(cfg.Limit, Len(matches))),
              Total |-> Len(matches),
              Query |-> query,
              MaxScore |-> 0,
              NextOffset |-> NilPtr],
             "nil")

\* Search from "Apply pagination" to its return, on the ranked matches.
\* make panics on a capacity out of range, matches[i] on a negative index.
\* Took, the elapsed time, is left out.
pageResults(matches, query, cfg) ==
    LET n == Len(matches)
        end == clampToLen(pageEnd(cfg), n)
        start == clampToLen(cfg.Offset, n)
        capacity == WrapInt(end - start)
        items == [i \in 1..(end - start) |->
                    [ID |-> matches[start + i].document.ID,
                     Score |-> matches[start + i].score,
                     Fields |-> matches[start + i].document.Fields]]
    IN IF capacity < 0 \/ capacity > maxSliceCap THEN Panicked
       ELSE IF start < end /\ start < 0 THEN Panicked
       ELSE Returned([Items |-> items,
                      Total |-> n,
                      Query |-> query,
                      MaxScore |-> MaxScoreOf(items, 0),
                      NextOffset |-> nextOffset(end, n)],
                     "nil")

\* Search from "Sort matches" to its return: ranking, pagination, results
buildResults(scanned, query, cfg) == pageResults(sortMatches(scanned, cfg.Sort), query, cfg)

\* Search on a store that no writer touches and with a context that is not
\* cancelled
Search(docs, query, opts) ==
    IF applyPanics(opts) THEN Panicked
    ELSE buildResults(scanFrom(docs, 1, << >>, query, ParseOptions(opts)), query, ParseOptions(opts))

(***************************************************************************)
(* json.Unmarshal(jsonData, &fields) with fields a map[string]interface{}. *)
(* The input bytes are given by the JSON text they spell: a JSON value, or *)
(* text that is not JSON.                                                  *)
(***************************************************************************)
JInvalid == [j |-> "invalid"]
JNull == [j |-> "null"]
JBool(b) == [j |-> "bool", b |-> b]
\* the JSON number n
JNumber(n) == [j |-> "number", n |-> n]
JString(s) == [j |-> "string", s |-> s]
JArray(xs) == [j |-> "array", xs |-> xs]
\* a JSON object: a function from member names to JSON values
JObject(m) == [j |-> "object", m |-> m]

\* a JSON value decoded into an interface{}: numbers become float64
RECURSIVE decodeValue(_)
decodeValue(jv) ==
    CASE jv.j = "null" -> VNil
      [] jv.j = "bool" -> VBool(jv.b)
      [] jv.j = "number" -> VFloat(2 * jv.n)
      [] jv.j = "string" -> VStr(jv.s)
      [] jv.j = "array" -> VList([i \in 1..Len(jv.xs) |-> decodeValue(jv.xs[i])])
      [] jv.j = "object" -> VMap([key \in DOMAIN jv.m |-> decodeValue(jv.m[key])])

\* a decoder that reports no failure and leaves the map empty instead
Unmarshal_AcceptAll(jv) ==
    IF jv.j = "object"
    THEN [failed |-> FALSE, fields |-> [name \in DOMAIN jv.m |-> decodeValue(jv.m[name])]]
    ELSE [failed |-> FALSE, fields |-> NoFields]

\* the decoded field map and whether decoding failed: only an object or
\* null decodes into a map, and null leaves the map nil
Unmarshal(jv) ==
    CASE jv.j = "object" ->
            [failed |-> FALSE, fields |-> [name \in DOMAIN jv.m |-> decodeValue(jv.m[name])]]
      [] jv.j = "null" -> [failed |-> FALSE, fields |-> NoFields]
      [] OTHER -> [failed |-> TRUE, fields |-> NoFields]

(***************************************************************************)
(* The store and its callers.                                              *)
(***************************************************************************)
VARIABLES
    documents,  \* Searcher.documents: the documents in scan order
    idIndex,    \* Searcher.idIndex: document id -> position in documents
    mu,         \* Searcher.mu: the state of the sync.RWMutex
    pc,         \* where each caller is in the operation it runs
    call,       \* the operation each caller runs, with its arguments
    loc,        \* the local variables of that operation
    ret,        \* what the operation is about to return
    ctxDone,    \* whether the Done channel of the caller's context is closed
    snap,       \* the store as it was when the caller acquired the lock
    getClient,  \* Client.getClient: the state of the sync.OnceValues function
    callCount   \* the number of calls of the fetchSecrets function so far

vars == <<documents, idIndex, mu, pc, call, loc, ret, ctxDone, snap, getClient, callCount>>

\* no Algolia client has been constructed
NoClient == [state |-> "none"]

\* the goroutines that call the store
Procs == {"g1", "g2"}

IDNames == <<"a", "b", "c", "d">>

\* the document ids callers use
DocIDs == {IDNames[i] : i \in 1..MaxDocs}

F_book == [title |-> VStr(S_Go), year |-> VInt(2)]
F_note == [title |-> VStr(S_go), year |-> VFloat(2)]

\* the field maps callers store
FieldMaps == {F_book, F_note}

\* the JSON texts callers hand to AddJSON
JSONTexts ==
    { JInvalid, JNull, JArray(<<JNumber(1)>>),
      JObject([title |-> JString(S_go), year |-> JNumber(1)]) }

\* the searches callers run
SearchCalls ==
    { [query |-> S_empty, opts |-> << >>],
      [query |-> S_go, opts |-> <<WithLimit(1)>>],
      [query |-> S_empty, opts |-> <<WithOffset(1), WithSort("year", TRUE)>>],
      [query |-> S_go_py, opts |-> <<Eq("year", VInt(1)), WithLimit(0)>>] }

NoCall == [op |-> "none"]
NoLoc == [none |-> TRUE]
NoRet == [none |-> TRUE]
NoSnap == [none |-> TRUE]

\* the store, as one value
Store == [documents |-> documents, idIndex |-> idIndex]

\* New()
Init ==
    /\ documents = << >>
    /\ idIndex = [id \in {} |-> 0]
    /\ mu = [w |-> "free", r |-> 0]
    /\ pc = [p \in Procs |-> "idle"]
    /\ call = [p \in Procs |-> NoCall]
    /\ loc = [p \in Procs |-> NoLoc]
    /\ ret = [p \in Procs |-> NoRet]
    /\ ctxDone = [p \in Procs |-> FALSE]
    /\ snap = [p \in Procs |-> NoSnap]
    /\ getClient = NoClient
    /\ callCount = 0

(***************************************************************************)
(* sync.RWMutex: a writer that called Lock holds off new readers and waits *)
(* for the active readers to leave; mu.w is "free", "pending" (a writer    *)
(* waits for the readers) or "held"; mu.r counts the active readers.       *)
(***************************************************************************)
\* a Lock that does not wait for the active readers
readersDrained_NoWait(m) == TRUE

\* a writer may enter: no reader is active
readersDrained(m) == m.r = 0

\* an RLock that never lets a reader in
canRLock_Never(m) == FALSE

\* a reader may enter: no writer holds or awaits the lock
canRLock(m) == m.w = "free"

\* s.mu.Lock(): take the writer slot, then enter once the readers have left
Lock(p) ==
    /\ pc[p] \in {"add_lock", "rm_lock", "clr_lock"}
    /\ mu.w = "free"
    /\ mu' = [mu EXCEPT !.w = "pending"]
    /\ pc' = [pc EXCEPT ![p] = "lock_wait"]
    /\ UNCHANGED <<documents, idIndex, call, loc, ret, ctxDone, snap>>

LockWait(p) ==
    /\ pc[p] = "lock_wait"
    /\ readersDrained(mu)
    /\ mu' = [mu EXCEPT !.w = "held"]
    /\ pc' = [pc EXCEPT ![p] =
                CASE call[p].op \in {"AddDocument", "AddJSON"} -> "add_body"
                  [] call[p].op = "RemoveDocument" -> "rm_body"
                  [] call[p].op = "Clear" -> "clr_body"]
    /\ snap' = [snap EXCEPT ![p] = Store]
    /\ UNCHANGED <<documents, idIndex, call, loc, ret, ctxDone>>

\* the deferred s.mu.Unlock(), and the return to the caller
Unlock(p) ==
    /\ pc[p] = "w_unlock"
    /\ mu' = [mu EXCEPT !.w = "free"]
    /\ pc' = [pc EXCEPT ![p] = "idle"]
    /\ call' = [call EXCEPT ![p] = NoCall]
    /\ loc' = [loc EXCEPT ![p] = NoLoc]
    /\ ret' = [ret EXCEPT ![p] = NoRet]
    /\ snap' = [snap EXCEPT ![p] = NoSnap]
    /\ UNCHANGED <<documents, idIndex, ctxDone>>

\* s.mu.RLock()
RLock(p) ==
    /\ pc[p] \in {"size_rlock", "search_rlock"}
    /\ canRLock(mu)
    /\ mu' = [mu EXCEPT !.r = @ + 1]
    /\ snap' = [snap EXCEPT ![p] = Store]
    /\ IF pc[p] = "size_rlock"
       THEN /\ pc' = [pc EXCEPT ![p] = "size_read"]
            /\ loc' = loc
       ELSE /\ pc' = [pc EXCEPT ![p] = "search_scan"]
            \* var matches []scoredDocument; for _, doc := range s.documents
            /\ loc' = [loc EXCEPT ![p] = [cfg |-> loc[p].cfg, i |-> 1,
                                          n |-> Len(documents), matches |-> << >>]]
    /\ UNCHANGED <<documents, idIndex, call, ret, ctxDone>>

\* the deferred s.mu.RUnlock(), and the return to the caller
RUnlock(p) ==
    /\ pc[p] = "r_unlock"
    /\ mu' = [mu EXCEPT !.r = @ - 1]
    /\ pc' = [pc EXCEPT ![p] = "idle"]
    /\ call' = [call EXCEPT ![p] = NoCall]
    /\ loc' = [loc EXCEPT ![p] = NoLoc]
    /\ ret' = [ret EXCEPT ![p] = NoRet]
    /\ snap' = [snap EXCEPT ![p] = NoSnap]
    /\ ctxDone' = [ctxDone EXCEPT ![p] = FALSE]
    /\ UNCHANGED <<documents, idIndex>>

(***************************************************************************)
(* AddDocument and AddJSON.                                                *)
(***************************************************************************)
\* the ids of a document list, in scan order
IDsOf(docs) == [i \in 1..Len(docs) |-> docs[i].ID]

\* a caller starts AddDocument(doc)
CallAddDocument(p, doc) ==
    /\ pc[p] = "idle"
    /\ pc' = [pc EXCEPT ![p] = "add_lock"]
    /\ call' = [call EXCEPT ![p] = [op |-> "AddDocument", doc |-> doc]]
    /\ UNCHANGED <<documents, idIndex, mu, loc, ret, ctxDone, snap>>

\* a caller starts AddJSON(id, jsonData): json.Unmarshal, then AddDocument
\* with the decoded fields, or the return of the wrapped error
CallAddJSON(p, id, jsonData) ==
    /\ pc[p] = "idle"
    /\ call' = [call EXCEPT ![p] =
                  [op |-> "AddJSON", id |-> id, jsonData |-> jsonData,
                   doc |-> Document(id, Unmarshal(jsonData).fields)]]
    /\ IF Unmarshal(jsonData).failed
       THEN /\ pc' = [pc EXCEPT ![p] = "json_fail"]
            /\ ret' = [ret EXCEPT ![p] = [err |-> "failed to unmarshal JSON"]]
       ELSE /\ pc' = [pc EXCEPT ![p] = "add_lock"]
            /\ ret' = ret
    /\ UNCHANGED <<documents, idIndex, mu, loc, ctxDone, snap>>

\* AddJSON returns the error to its caller
ReturnJSONError(p) ==
    /\ pc[p] = "json_fail"
    /\ pc' = [pc EXCEPT ![p] = "idle"]
    /\ call' = [call EXCEPT ![p] = NoCall]
    /\ ret' = [ret EXCEPT ![p] = NoRet]
    /\ UNCHANGED <<documents, idIndex, mu, loc, ctxDone, snap>>

\* an update that appends the document instead of replacing it
replaceAt_Append(docs, idx, doc) == Append(docs, doc)

\* s.documents[idx] = doc
replaceAt(docs, idx, doc) == [docs EXCEPT ![idx] = doc]

\* the body of AddDocument up to the append: an existing id is replaced in
\* place, a new id is entered in the index
AddBody(p) ==
    /\ pc[p] = "add_body"
    /\ LET doc == call[p].doc
       IN IF doc.ID \in DOMAIN idIndex
          THEN /\ documents' = replaceAt(documents, idIndex[doc.ID], doc)
               /\ idIndex' = idIndex
               /\ pc' = [pc EXCEPT ![p] = "w_unlock"]
               /\ ret' = [ret EXCEPT ![p] =
                            IF call[p].op = "AddJSON" THEN [err |-> "nil"] ELSE [void |-> TRUE]]
          ELSE /\ idIndex' = [id \in DOMAIN idIndex \cup {doc.ID} |->
                                IF id = doc.ID THEN Len(documents) + 1 ELSE idIndex[id]]
               /\ documents' = documents
               /\ pc' = [pc EXCEPT ![p] = "add_append"]
               /\ ret' = ret
    /\ UNCHANGED <<mu, call, loc, ctxDone, snap>>

\* s.documents = append(s.documents, doc)
AddAppend(p) ==
    /\ pc[p] = "add_append"
    /\ documents' = Append(documents, call[p].doc)
    /\ pc' = [pc EXCEPT ![p] = "w_unlock"]
    /\ ret' = [ret EXCEPT ![p] =
                 IF call[p].op = "AddJSON" THEN [err |-> "nil"] ELSE [void |-> TRUE]]
    /\ UNCHANGED <<idIndex, mu, call, loc, ctxDone, snap>>

(***************************************************************************)
(* RemoveDocument.                                                         *)
(***************************************************************************)
CallRemoveDocument(p, id) ==
    /\ pc[p] = "idle"
    /\ pc' = [pc EXCEPT ![p] = "rm_lock"]
    /\ call' = [call EXCEPT ![p] = [op |-> "RemoveDocument", id |-> id]]
    /\ UNCHANGED <<documents, idIndex, mu, loc, ret, ctxDone, snap>>

\* a removal that drops the element after the one found
removeAt_OffByOne(docs, idx) == SubSeq(docs, 1, idx) \o SubSeq(docs, idx + 2, Len(docs))

\* append(s.documents[:idx], s.documents[idx+1:]...)
removeAt(docs, idx) == SubSeq(docs, 1, idx - 1) \o SubSeq(docs, idx + 1, Len(docs))

\* a rebuild of the index that starts one position too far
reindexFrom_SkipFirst(index, docs, id, idx) ==
    LET shifted == {docs[i].ID : i \in (idx + 1)..Len(docs)}
    IN [x \in (DOMAIN index \ {id}) \cup shifted |->
          IF x \in shifted
          THEN CHOOSE i \in (idx + 1)..Len(docs) : docs[i].ID = x
          ELSE index[x]]

\* delete(s.idIndex, id); for i := idx; i < len(s.documents); i++ {
\*     s.idIndex[s.documents[i].ID] = i }
reindexFrom(index, docs, id, idx) ==
    LET shifted == {docs[i].ID : i \in idx..Len(docs)}
    IN [x \in (DOMAIN index \ {id}) \cup shifted |->
          IF x \in shifted
          THEN CHOOSE i \in idx..Len(docs) :
                   /\ docs[i].ID = x
                   /\ \A j \in (i + 1)..Len(docs) : docs[j].ID # x
          ELSE index[x]]

\* the lookup, the early return false, and the removal from the slice
RemoveBody(p) ==
    /\ pc[p] = "rm_body"
    /\ IF call[p].id \notin DOMAIN idIndex
       THEN /\ ret' = [ret EXCEPT ![p] = [removed |-> FALSE]]
            /\ pc' = [pc EXCEPT ![p] = "w_unlock"]
            /\ UNCHANGED <<documents, loc>>
       ELSE /\ documents' = removeAt(documents, idIndex[call[p].id])
            /\ loc' = [loc EXCEPT ![p] = [idx |-> idIndex[call[p].id]]]
            /\ pc' = [pc EXCEPT ![p] = "rm_reindex"]
            /\ ret' = ret
    /\ UNCHANGED <<idIndex, mu, call, ctxDone, snap>>

\* the rebuild of the index and return true
RemoveReindex(p) ==
    /\ pc[p] = "rm_reindex"
    /\ idIndex' = reindexFrom(idIndex, documents, call[p].id, loc[p].idx)
    /\ ret' = [ret EXCEPT ![p] = [removed |-> TRUE]]
    /\ pc' = [pc EXCEPT ![p] = "w_unlock"]
    /\ UNCHANGED <<documents, mu, call, loc, ctxDone, snap>>

(***************************************************************************)
(* Clear and Size.                                                         *)
(***************************************************************************)
CallClear(p) ==
    /\ pc[p] = "idle"
    /\ pc' = [pc EXCEPT ![p] = "clr_lock"]
    /\ call' = [call EXCEPT ![p] = [op |-> "Clear"]]
    /\ UNCHANGED <<documents, idIndex, mu, loc, ret, ctxDone, snap>>

\* s.documents = make([]Document, 0)
ClearBody(p) ==
    /\ pc[p] = "clr_body"
    /\ documents' = << >>
    /\ pc' = [pc EXCEPT ![p] = "clr_index"]
    /\ UNCHANGED <<idIndex, mu, call, loc, ret, ctxDone, snap>>

\* s.idIndex = make(map[string]int)
ClearIndex(p) ==
    /\ pc[p] = "clr_index"
    /\ idIndex' = [id \in {} |-> 0]
    /\ ret' = [ret EXCEPT ![p] = [void |-> TRUE]]
    /\ pc' = [pc EXCEPT ![p] = "w_unlock"]
    /\ UNCHANGED <<documents, mu, call, loc, ctxDone, snap>>

CallSize(p) ==
    /\ pc[p] = "idle"
    /\ pc' = [pc EXCEPT ![p] = "size_rlock"]
    /\ call' = [call EXCEPT ![p] = [op |-> "Size"]]
    /\ UNCHANGED <<documents, idIndex, mu, loc, ret, ctxDone, snap>>

\* return len(s.documents)
SizeRead(p) ==
    /\ pc[p] = "size_read"
    /\ ret' = [ret EXCEPT ![p] = [size |-> Len(documents)]]
    /\ pc' = [pc EXCEPT ![p] = "r_unlock"]
    /\ UNCHANGED <<documents, idIndex, mu, call, loc, ctxDone, snap>>

(***************************************************************************)
(* Search.                                                                 *)
(***************************************************************************)
\* a caller starts Search(ctx, query, opts...) with a context that is
\* cancelled (or past its deadline) already, or not yet
CallSearch(p, sc, cancelled) ==
    /\ pc[p] = "idle"
    /\ pc' = [pc EXCEPT ![p] = "search_entry"]
    /\ call' = [call EXCEPT ![p] = [op |-> "Search", query |-> sc.query, opts |-> sc.opts]]
    /\ ctxDone' = [ctxDone EXCEPT ![p] = cancelled]
    /\ UNCHANGED <<documents, idIndex, mu, loc, ret, snap>>

\* the caller's context is cancelled, or its deadline passes, during Search
Cancel(p) ==
    /\ pc[p] \in {"search_entry", "search_rlock", "search_scan"}
    /\ ~ctxDone[p]
    /\ ctxDone' = [ctxDone EXCEPT ![p] = TRUE]
    /\ UNCHANGED <<documents, idIndex, mu, pc, call, loc, ret, snap>>

\* a Search that reports a done context as a timeout
canceledReturn_Timeout == Returned(NilResults, "ErrTimeout")

\* what Search returns when it finds ctx.Done() closed
canceledReturn == Returned(NilResults, "ErrCanceled")

\* the context check at entry, then the options and the default limit
SearchEntry(p) ==
    /\ pc[p] = "search_entry"
    /\ IF ctxDone[p]
       THEN /\ ret' = [ret EXCEPT ![p] = canceledReturn]
            /\ pc' = [pc EXCEPT ![p] = "search_return"]
            /\ loc' = loc
       ELSE /\ loc' = [loc EXCEPT ![p] = [cfg |-> ParseOptions(call[p].opts)]]
            /\ pc' = [pc EXCEPT ![p] = "search_rlock"]
            /\ ret' = ret
    /\ UNCHANGED <<documents, idIndex, mu, call, ctxDone, snap>>

\* Search returns before it took the lock
SearchReturn(p) ==
    /\ pc[p] = "search_return"
    /\ pc' = [pc EXCEPT ![p] = "idle"]
    /\ call' = [call EXCEPT ![p] = NoCall]
    /\ ret' = [ret EXCEPT ![p] = NoRet]
    /\ ctxDone' = [ctxDone EXCEPT ![p] = FALSE]
    /\ UNCHANGED <<documents, idIndex, mu, loc, snap>>

\* the element the range loop reads at position i (the loop runs over the
\* slice as it was at its start; the elements are read when visited)
rangeElem(i) == IF i <= Len(documents) THEN documents[i] ELSE Document("", NoFields)

\* one iteration of the scan loop: the context check, the filters, the score
SearchScan(p) ==
    /\ pc[p] = "search_scan"
    /\ loc[p].i <= loc[p].n
    /\ IF ctxDone[p]
       THEN /\ ret' = [ret EXCEPT ![p] = canceledReturn]
            /\ pc' = [pc EXCEPT ![p] = "r_unlock"]
            /\ loc' = loc
       ELSE /\ loc' = [loc EXCEPT ![p].i = @ + 1,
                                  ![p].matches = scanDocument(@, rangeElem(loc[p].i),
                                                              call[p].query, loc[p].cfg)]
            /\ UNCHANGED <<ret, pc>>
    /\ UNCHANGED <<documents, idIndex, mu, call, ctxDone, snap>>

\* after the loop: ranking, pagination and the results
SearchFinish(p) ==
    /\ pc[p] = "search_scan"
    /\ loc[p].i > loc[p].n
    /\ ret' = [ret EXCEPT ![p] = buildResults(loc[p].matches, call[p].query, loc[p].cfg)]
    /\ pc' = [pc EXCEPT ![p] = "r_unlock"]
    /\ UNCHANGED <<documents, idIndex, mu, call, loc, ctxDone, snap>>

(***************************************************************************)
(* The concurrent callers of one store.                                    *)
(***************************************************************************)
Next ==
    /\ UNCHANGED <<getClient, callCount>>
    /\ \E p \in Procs :
        \/ \E id \in DocIDs, f \in FieldMaps : CallAddDocument(p, Document(id, f))
        \/ \E id \in DocIDs, jv \in JSONTexts : CallAddJSON(p, id, jv)
        \/ ReturnJSONError(p)
        \/ \E id \in DocIDs : CallRemoveDocument(p, id)
        \/ CallClear(p)
        \/ CallSize(p)
        \/ \E sc \in SearchCalls, cancelled \in BOOLEAN : CallSearch(p, sc, cancelled)
        \/ Cancel(p)
        \/ Lock(p)
        \/ LockWait(p)
        \/ Unlock(p)
        \/ RLock(p)
        \/ RUnlock(p)
        \/ AddBody(p)
        \/ AddAppend(p)
        \/ RemoveBody(p)
        \/ RemoveReindex(p)
        \/ ClearBody(p)
        \/ ClearIndex(p)
        \/ SizeRead(p)
        \/ SearchEntry(p)
        \/ SearchReturn(p)
        \/ SearchScan(p)
        \/ SearchFinish(p)

Spec == Init /\ [][Next]_vars

(***************************************************************************)
(* The concurrent callers under fair scheduling.                           *)
(***************************************************************************)
\* the searches of the fair callers: one over the whole store, one sorted
FairSearchCalls ==
    { [query |-> S_empty, opts |-> << >>],
      [query |-> S_go, opts |-> <<WithSort("year", TRUE)>>] }

\* the calls the callers start
FairCalls(p) ==
    \/ \E id \in DocIDs : CallAddDocument(p, Document(id, F_book))
    \/ \E id \in DocIDs, jv \in {JInvalid, JObject([title |-> JString(S_go)])} :
           CallAddJSON(p, id, jv)
    \/ \E id \in DocIDs : CallRemoveDocument(p, id)
    \/ CallClear(p)
    \/ CallSize(p)
    \/ \E sc \in FairSearchCalls, cancelled \in BOOLEAN : CallSearch(p, sc, cancelled)
    \/ Cancel(p)

\* the steps of a call that wait for nobody
Run(p) ==
    /\ UNCHANGED <<getClient, callCount>>
    /\ \/ ReturnJSONError(p)
       \/ LockWait(p)
       \/ Unlock(p)
       \/ RUnlock(p)
       \/ AddBody(p)
       \/ AddAppend(p)
       \/ RemoveBody(p)
       \/ RemoveReindex(p)
       \/ ClearBody(p)
       \/ ClearIndex(p)
       \/ SizeRead(p)
       \/ SearchEntry(p)
       \/ SearchReturn(p)

\* the steps of the scan loop of Search and of what follows it
Scan(p) ==
    /\ UNCHANGED <<getClient, callCount>>
    /\ (SearchScan(p) \/ SearchFinish(p))

\* the steps that take the lock
Acquire(p) ==
    /\ UNCHANGED <<getClient, callCount>>
    /\ (Lock(p) \/ RLock(p))

FairNext == \E p \in Procs : (UNCHANGED <<getClient, callCount>> /\ FairCalls(p)) \/ Run(p) \/ Scan(p) \/ Acquire(p)

\* The scheduler runs every goroutine that can run: a call that waits for
\* nobody takes its next step (weak fairness; for the scan loop with the
\* enabling condition written out: a step is possible exactly when the
\* call is in the loop, and it changes loc or pc).  sync.Mutex hands the
\* lock to a waiter that has waited too long and an Unlock of the RWMutex
\* lets the readers in that waited for it: a caller that can take the lock
\* again and again takes it (strong fairness).
FairScheduling ==
    \A p \in Procs :
        /\ WF_vars(Run(p))
        /\ <>[](pc[p] = "search_scan") => []<><<Scan(p)>>_vars
        /\ SF_vars(Acquire(p))

SpecFair == Init /\ [][FairNext]_vars /\ FairScheduling

(***************************************************************************)
(* One caller paging through a store that nobody changes.                  *)
(***************************************************************************)
F_match(i) == [index |-> VInt(i), text |-> VStr(S_go)]
F_other(i) == [index |-> VInt(i), text |-> VStr(S_py)]

\* a store of n documents "1".."n" in which every m-th document does not
\* contain the term go (m > n: all of them contain it)
PageStore(n, m) ==
    [i \in 1..n |-> Document(ToString(i), IF i % m = 0 THEN F_other(i) ELSE F_match(i))]

PageStores == {PageStore(n, m) : n \in 0..MaxPageDocs, m \in {2, 3, MaxPageDocs + 2}}

\* the index New and AddDocument build for a list of documents with
\* pairwise distinct ids
indexOf(docs) == [id \in {docs[i].ID : i \in 1..Len(docs)} |->
                    CHOOSE i \in 1..Len(docs) : docs[i].ID = id]

PageOffsets == (-1..(MaxPageDocs + 1)) \cup {MaxInt - 1, MaxInt}
PageLimits == (-1..(MaxPageDocs + 1)) \cup {MaxInt}

\* the options of a paging search: an offset, a limit or none, a sort or
\* none, a filter or none
PageOpts ==
    { <<WithOffset(o)>> \o l \o srt \o flt :
        o \in PageOffsets,
        l \in {<< >>} \cup {<<WithLimit(x)>> : x \in PageLimits},
        srt \in {<< >>, <<WithSort("index", TRUE)>>},
        flt \in {<< >>, <<Gt("index", VInt(1))>>} }

PageQueries == {S_empty, S_go}

PageCaller == "g1"

PageInit ==
    /\ documents \in PageStores
    /\ idIndex = indexOf(documents)
    /\ mu = [w |-> "free", r |-> 0]
    /\ pc = [p \in Procs |-> "idle"]
    /\ call = [p \in Procs |-> NoCall]
    /\ loc = [p \in Procs |-> NoLoc]
    /\ ret = [p \in Procs |-> NoRet]
    /\ ctxDone = [p \in Procs |-> FALSE]
    /\ snap = [p \in Procs |-> NoSnap]
    /\ getClient = NoClient
    /\ callCount = 0

\* Search(ctx, query, opts...) from its call to its return, with no other
\* caller and a context that stays open
PageSearch(query, opts) ==
    /\ pc[PageCaller] = "idle"
    /\ call' = [call EXCEPT ![PageCaller] = [op |-> "Search", query |-> query, opts |-> opts]]
    /\ ret' = [ret EXCEPT ![PageCaller] = Search(documents, query, opts)]
    /\ pc' = [pc EXCEPT ![PageCaller] = "returned"]
    /\ UNCHANGED <<documents, idIndex, mu, loc, ctxDone, snap>>

PageNext ==
    /\ UNCHANGED <<getClient, callCount>>
    /\ \E query \in PageQueries, opts \in PageOpts : PageSearch(query, opts)

SpecPage == PageInit /\ [][PageNext]_vars

(***************************************************************************)
(* One caller reading every page of a search, as paginatedSearch does.     *)
(***************************************************************************)
\* the page sizes
PageSizes == {1, 2, 3, 5, MaxInt}

\* the filters and the sort that every call of one loop passes
PagingOpts ==
    { srt \o flt : srt \in {<< >>, <<WithSort("index", TRUE)>>},
                   flt \in {<< >>, <<Gt("index", VInt(1))>>} }

\* paginatedSearch(searcher, query, pageSize) up to its loop: offset := 0
PaginateStart(query, pageSize, opts) ==
    /\ pc[PageCaller] = "idle"
    /\ call' = [call EXCEPT ![PageCaller] =
                    [op |-> "paginatedSearch", query |-> query, pageSize |-> pageSize,
                     opts |-> opts]]
    /\ loc' = [loc EXCEPT ![PageCaller] = [offset |-> 0, ids |-> << >>, calls |-> 0]]
    /\ pc' = [pc EXCEPT ![PageCaller] = "paging"]
    /\ UNCHANGED <<documents, idIndex, mu, ret, ctxDone, snap>>

\* the turn of the loop after Search has returned out: log.Fatal on an
\* error, the ids of the page, break when NextOffset is nil, else
\* offset = *NextOffset
PaginateTurn(l, out) ==
    /\ ret' = [ret EXCEPT ![PageCaller] = out]
    /\ IF out.panic
       THEN /\ pc' = [pc EXCEPT ![PageCaller] = "returned"]
            /\ loc' = [loc EXCEPT ![PageCaller].calls = l.calls + 1]
       ELSE IF out.err # "nil"
       THEN /\ pc' = [pc EXCEPT ![PageCaller] = "returned"]
            /\ loc' = [loc EXCEPT ![PageCaller].calls = l.calls + 1]
       ELSE /\ loc' = [loc EXCEPT ![PageCaller] =
                         [offset |-> IF out.res.NextOffset = NilPtr THEN l.offset
                                     ELSE out.res.NextOffset[1],
                          ids |-> l.ids \o [i \in 1..Len(out.res.Items) |->
                                               out.res.Items[i].ID],
                          calls |-> l.calls + 1]]
            /\ pc' = [pc EXCEPT ![PageCaller] =
                         IF out.res.NextOffset = NilPtr THEN "returned" ELSE "paging"]

\* one turn of the loop: Search at the offset, then the rest of the turn
PaginateStep ==
    /\ pc[PageCaller] = "paging"
    /\ PaginateTurn(loc[PageCaller],
                    Search(documents, call[PageCaller].query,
                           <<WithLimit(call[PageCaller].pageSize),
                             WithOffset(loc[PageCaller].offset)>> \o call[PageCaller].opts))
    /\ UNCHANGED <<documents, idIndex, mu, call, ctxDone, snap, getClient, callCount>>

PaginateNext ==
    \/ /\ UNCHANGED <<getClient, callCount>>
       /\ \E query \in PageQueries, pageSize \in PageSizes, opts \in PagingOpts :
              PaginateStart(query, pageSize, opts)
    \/ PaginateStep

\* The caller is a running goroutine: its loop takes its next turn.  This
\* is weak fairness of PaginateStep, <>[]ENABLED <<PaginateStep>>_vars =>
\* []<><<PaginateStep>>_vars, with the enabling condition written out: a
\* turn is possible exactly when the loop is at one, and it changes loc.
PaginateFair == <>[](pc[PageCaller] = "paging") => []<><<PaginateStep>>_vars

SpecPaginate == PageInit /\ [][PaginateNext]_vars /\ PaginateFair

(***************************************************************************)
(* One caller evaluating expressions, comparing values and searching with  *)
(* filters.                                                                *)
(***************************************************************************)
\* largest number of operands of an And or Or, and of filters of a Search
MaxArity == 2

\* the values stored in the field year and the values of the expressions
EvalValues ==
    { VNil, VBool(TRUE), VInt(1), VInt(2), VInt(10), VFloat(3), VFloat(4), VNaN,
      VStr(S_true), VStr(S_2), VStr(S_1a), VList(<<VInt(1)>>) }

\* the field maps: no field, or the field year with any of the values
EvalFieldMaps == {NoFields} \cup {[year |-> v] : v \in EvalValues}

\* stores of one document, or of one document and a book
EvalStores ==
    {<<Document("a", f)>> : f \in EvalFieldMaps}
        \cup {<<Document("a", f), Document("b", F_book)>> : f \in EvalFieldMaps}

\* the bounds of the Range expressions
EvalBounds == {VNil, VInt(1), VInt(2), VFloat(3), VStr(S_1a)}

\* the expressions on one field
EvalLeaves ==
    {Eq("year", v) : v \in EvalValues} \cup {Ne("year", v) : v \in EvalValues}
        \cup {Gt("year", v) : v \in EvalValues} \cup {Gte("year", v) : v \in EvalValues}
        \cup {Lt("year", v) : v \in EvalValues} \cup {Lte("year", v) : v \in EvalValues}
        \cup {Range("year", lo, hi) : lo \in EvalBounds, hi \in EvalBounds}
        \cup {Exists("year")}

\* the operands of And and Or, and the filters of a Search
EvalOperands ==
    { Exists("year"), Eq("year", VInt(2)), Lt("year", VInt(2)), Not(Exists("year")),
      And(<< >>), Or(<< >>), Or(<<Eq("year", VInt(2)), Lt("year", VInt(2))>>) }

\* the sequences over S of length at most n
SeqsUpTo(S, n) == UNION {[1..k -> S] : k \in 0..n}

\* the expressions the caller evaluates
EvalExprs ==
    EvalLeaves
        \cup {And(xs) : xs \in SeqsUpTo(EvalOperands, MaxArity)}
        \cup {Or(xs) : xs \in SeqsUpTo(EvalOperands, MaxArity)}
        \cup {Not(e) : e \in EvalLeaves \cup EvalOperands}

EvalCaller == "g1"

EvalInit ==
    /\ documents \in EvalStores
    /\ idIndex = indexOf(documents)
    /\ mu = [w |-> "free", r |-> 0]
    /\ pc = [p \in Procs |-> "idle"]
    /\ call = [p \in Procs |-> NoCall]
    /\ loc = [p \in Procs |-> NoLoc]
    /\ ret = [p \in Procs |-> NoRet]
    /\ ctxDone = [p \in Procs |-> FALSE]
    /\ snap = [p \in Procs |-> NoSnap]
    /\ getClient = NoClient
    /\ callCount = 0

\* s.evaluateExpression(doc, expr) on a stored document
CallEvaluateExpression(d, e) ==
    /\ pc[EvalCaller] = "idle"
    /\ call' = [call EXCEPT ![EvalCaller] =
                    [op |-> "evaluateExpression", doc |-> documents[d], expr |-> e]]
    /\ ret' = [ret EXCEPT ![EvalCaller] = [ok |-> evaluateExpression(documents[d], e)]]
    /\ pc' = [pc EXCEPT ![EvalCaller] = "returned"]
    /\ UNCHANGED <<documents, idIndex, mu, loc, ctxDone, snap>>

\* s.compareValues(v1, v2)
CallCompareValues(v1, v2) ==
    /\ pc[EvalCaller] = "idle"
    /\ call' = [call EXCEPT ![EvalCaller] = [op |-> "compareValues", v1 |-> v1, v2 |-> v2]]
    /\ ret' = [ret EXCEPT ![EvalCaller] = [cmp |-> compareValues(v1, v2)]]
    /\ pc' = [pc EXCEPT ![EvalCaller] = "returned"]
    /\ UNCHANGED <<documents, idIndex, mu, loc, ctxDone, snap>>

\* s.compareEqual(v1, v2)
CallCompareEqual(v1, v2) ==
    /\ pc[EvalCaller] = "idle"
    /\ call' = [call EXCEPT ![EvalCaller] = [op |-> "compareEqual", v1 |-> v1, v2 |-> v2]]
    /\ ret' = [ret EXCEPT ![EvalCaller] = [eq |-> compareEqual(v1, v2)]]
    /\ pc' = [pc EXCEPT ![EvalCaller] = "returned"]
    /\ UNCHANGED <<documents, idIndex, mu, loc, ctxDone, snap>>

EvalNext ==
    /\ UNCHANGED <<getClient, callCount>>
    /\ \/ \E d \in 1..Len(documents), e \in EvalExprs : CallEvaluateExpression(d, e)
       \/ \E v1 \in EvalValues, v2 \in EvalValues : CallCompareValues(v1, v2)
       \/ \E v1 \in EvalValues, v2 \in EvalValues : CallCompareEqual(v1, v2)
       \/ \E query \in PageQueries, filters \in SeqsUpTo(EvalOperands, MaxArity) :
               PageSearch(query, filters)

SpecEval == EvalInit /\ [][EvalNext]_vars

(***************************************************************************)
(* One caller with expressions that the evaluator's switch does not list.  *)
(***************************************************************************)
\* an expression of another type, the nil expression, and pointers to
\* expressions of the listed types
UnlistedExprs == {UnknownExpr, NilExpr, PtrTo(Eq("year", VInt(2))), PtrTo(Exists("year"))}

\* the expressions the caller evaluates and the filters it searches with
UnlistedOperands ==
    UnlistedExprs \cup {Not(u) : u \in UnlistedExprs}
        \cup {And(<<u, Exists("year")>>) : u \in UnlistedExprs}
        \cup {Or(<<u, Exists("year")>>) : u \in UnlistedExprs}

UnlistedNext ==
    /\ UNCHANGED <<getClient, callCount>>
    /\ \/ \E d \in 1..Len(documents), e \in UnlistedOperands : CallEvaluateExpression(d, e)
       \/ \E query \in PageQueries, filters \in SeqsUpTo(UnlistedOperands, 1) :
               PageSearch(query, filters)

SpecUnlisted == EvalInit /\ [][UnlistedNext]_vars

(***************************************************************************)
(* One caller scoring documents and searching with a query.                *)
(***************************************************************************)
\* largest number of documents of a store of the scoring model
MaxScoreDocs == 2

F_go_py == [title |-> VStr(S_go_py), body |-> VStr(S_Go)]
F_py == [title |-> VStr(S_py)]
F_tags == [title |-> VStr(S_go), tags |-> VList(<<VStr(S_go), VStr(S_py)>>)]
F_meta == [title |-> VStr(S_go), body |-> VStr(S_go),
           meta |-> VMap([key \in {S_py} |-> VList(<<VInt(2)>>)])]
F_null == [title |-> VNil, year |-> VBool(TRUE)]

\* the field maps of the scored documents
ScoreFieldMaps == {NoFields, F_book, F_note, F_go_py, F_py, F_tags, F_meta, F_null}

\* the stores of 1..MaxScoreDocs documents "1", "2", ...
ScoreStores ==
    UNION {{[i \in 1..n |-> Document(ToString(i), fs[i])] : fs \in [1..n -> ScoreFieldMaps]} :
              n \in 1..MaxScoreDocs}

\* the queries: empty, of white space, of one term, of several terms
ScoreQueries ==
    { S_empty, S_space, S_tab_space, S_go, S_Go, S_py, S_2, S_nil,
      S_go_py, S_go_go, S_go_go_py, S_GO_Py, S_padded_go_py, S_go_2 }

\* the filters of the searches: none, or one
ScoreFilters == {<< >>, <<Exists("body")>>}

ScoreInit ==
    /\ documents \in ScoreStores
    /\ idIndex = indexOf(documents)
    /\ mu = [w |-> "free", r |-> 0]
    /\ pc = [p \in Procs |-> "idle"]
    /\ call = [p \in Procs |-> NoCall]
    /\ loc = [p \in Procs |-> NoLoc]
    /\ ret = [p \in Procs |-> NoRet]
    /\ ctxDone = [p \in Procs |-> FALSE]
    /\ snap = [p \in Procs |-> NoSnap]
    /\ getClient = NoClient
    /\ callCount = 0

\* s.scoreDocument(doc, query) on a stored document
CallScoreDocument(d, query) ==
    /\ pc[EvalCaller] = "idle"
    /\ call' = [call EXCEPT ![EvalCaller] =
                    [op |-> "scoreDocument", doc |-> documents[d], query |-> query]]
    /\ ret' = [ret EXCEPT ![EvalCaller] = [score |-> scoreDocument(documents[d], query)]]
    /\ pc' = [pc EXCEPT ![EvalCaller] = "returned"]
    /\ UNCHANGED <<documents, idIndex, mu, loc, ctxDone, snap>>

ScoreNext ==
    /\ UNCHANGED <<getClient, callCount>>
    /\ \/ \E d \in 1..Len(documents), query \in ScoreQueries : CallScoreDocument(d, query)
       \/ \E query \in ScoreQueries, filters \in ScoreFilters : PageSearch(query, filters)

SpecScore == ScoreInit /\ [][ScoreNext]_vars

(***************************************************************************)
(* One caller searching with a sort specification.                         *)
(***************************************************************************)
\* largest number of documents of a store of the sorting model
MaxSortDocs == 3

\* the values of the sort field rank: null, numbers of both kinds, a string
SortRanks == {VNil, VInt(2), VInt(10), VFloat(4), VStr(S_1a)}

\* the field maps of the sorted documents: with or without the field rank,
\* with the term go in one field or in two
SortFieldMaps ==
    LET texts == {[title |-> VStr(S_go)], [title |-> VStr(S_go), body |-> VStr(S_go)]}
    IN texts \cup {[f \in DOMAIN t \cup {"rank"} |-> IF f = "rank" THEN v ELSE t[f]] :
                      t \in texts, v \in SortRanks}

\* the stores of 1..MaxSortDocs documents "1", "2", ...
SortStores ==
    UNION {{[i \in 1..n |-> Document(ToString(i), fs[i])] : fs \in [1..n -> SortFieldMaps]} :
              n \in 1..MaxSortDocs}

\* the sort specifications of the searches
SortSpecs ==
    { << >>,
      <<WithSort("_score", TRUE)>>,
      <<WithSort("_score", FALSE)>>,
      <<WithSort("rank", FALSE)>>,
      <<WithSort("rank", TRUE)>>,
      <<WithSort("rank", FALSE), WithSort("_score", TRUE)>>,
      <<WithSort("_score", TRUE), WithSort("rank", TRUE)>> }

SortInit ==
    /\ documents \in SortStores
    /\ idIndex = indexOf(documents)
    /\ mu = [w |-> "free", r |-> 0]
    /\ pc = [p \in Procs |-> "idle"]
    /\ call = [p \in Procs |-> NoCall]
    /\ loc = [p \in Procs |-> NoLoc]
    /\ ret = [p \in Procs |-> NoRet]
    /\ ctxDone = [p \in Procs |-> FALSE]
    /\ snap = [p \in Procs |-> NoSnap]
    /\ getClient = NoClient
    /\ callCount = 0

SortNext ==
    /\ UNCHANGED <<getClient, callCount>>
    /\ \E query \in PageQueries, opts \in SortSpecs : PageSearch(query, opts)

SpecSort == SortInit /\ [][SortNext]_vars

(***************************************************************************)
(* One caller reading pages of matches whose scores differ.                *)
(***************************************************************************)
\* the options of the searches: an offset, a limit, ranked by score or from
\* the lowest score upwards
ScorePageOpts ==
    { <<WithOffset(o), WithLimit(l)>> \o srt :
        o \in 0..2, l \in 1..2,
        srt \in {<< >>, <<WithSort("_score", FALSE)>>} }

ScorePageNext ==
    /\ UNCHANGED <<getClient, callCount>>
    /\ \E opts \in ScorePageOpts : PageSearch(S_go, opts)

SpecScorePage == SortInit /\ [][ScorePageNext]_vars

(***************************************************************************)
(* Searches whose candidates tie: stores of the most documents sort.Slice  *)
(* sorts by insertion, and of one more.                                    *)
(***************************************************************************)
\* the stores "1", "2", ... of which at most two documents, those at the
\* positions in high, have the query in two fields and the others in one
TieStore(n, high) ==
    [i \in 1..n |-> Document(ToString(i),
                             IF i \in high THEN [title |-> VStr(S_go), body |-> VStr(S_go)]
                             ELSE [title |-> VStr(S_go)])]

TieStores ==
    UNION {{TieStore(n, {})} \cup {TieStore(n, {i, j}) : i, j \in 1..n} :
              n \in {maxInsertion, maxInsertion + 1}}

\* every candidate on one page, in the default order and by ascending score
TieOpts ==
    {<<WithLimit(maxInsertion + 1)>> \o srt : srt \in {<< >>, <<WithSort("_score", FALSE)>>}}

TieInit ==
    /\ documents \in TieStores
    /\ idIndex = indexOf(documents)
    /\ mu = [w |-> "free", r |-> 0]
    /\ pc = [p \in Procs |-> "idle"]
    /\ call = [p \in Procs |-> NoCall]
    /\ loc = [p \in Procs |-> NoLoc]
    /\ ret = [p \in Procs |-> NoRet]
    /\ ctxDone = [p \in Procs |-> FALSE]
    /\ snap = [p \in Procs |-> NoSnap]
    /\ getClient = NoClient
    /\ callCount = 0

TieNext ==
    /\ UNCHANGED <<getClient, callCount>>
    /\ \E opts \in TieOpts : PageSearch(S_go, opts)

SpecTies == TieInit /\ [][TieNext]_vars

(***************************************************************************)
(* One caller and the maps it shares with the store.  Document.Fields is a *)
(* map, a reference: AddDocument stores the map it is handed, and Search   *)
(* hands out the stored map in Result.Fields.  loc[AliasCaller].held is    *)
(* the set of ids whose stored map the caller holds.  Each call runs to    *)
(* its end before the next step of the caller.                             *)
(***************************************************************************)
AliasCaller == "g1"

\* the assignments the caller makes to a map it holds: m[name] = value
AliasNames == {"title"}
AliasValues == {VStr(S_py)}

AliasInit ==
    /\ documents = << >>
    /\ idIndex = [id \in {} |-> 0]
    /\ mu = [w |-> "free", r |-> 0]
    /\ pc = [p \in Procs |-> "idle"]
    /\ call = [p \in Procs |-> NoCall]
    /\ loc = [p \in Procs |-> IF p = AliasCaller THEN [held |-> {}] ELSE NoLoc]
    /\ ret = [p \in Procs |-> NoRet]
    /\ ctxDone = [p \in Procs |-> FALSE]
    /\ snap = [p \in Procs |-> NoSnap]
    /\ getClient = NoClient
    /\ callCount = 0

\* AddDocument(doc), from the Lock to the Unlock: s.documents[idx] = doc, or
\* the new index entry and the append.  The stored document has doc's map.
StoreDocument(doc) ==
    IF doc.ID \in DOMAIN idIndex
    THEN /\ documents' = replaceAt(documents, idIndex[doc.ID], doc)
         /\ idIndex' = idIndex
    ELSE /\ idIndex' = [id \in DOMAIN idIndex \cup {doc.ID} |->
                           IF id = doc.ID THEN Len(documents) + 1 ELSE idIndex[id]]
         /\ documents' = Append(documents, doc)

\* the caller builds a map, hands it to AddDocument and keeps it
AliasAddDocument(doc) ==
    /\ StoreDocument(doc)
    /\ call' = [call EXCEPT ![AliasCaller] = [op |-> "AddDocument", doc |-> doc]]
    /\ ret' = [ret EXCEPT ![AliasCaller] = [void |-> TRUE]]
    /\ loc' = [loc EXCEPT ![AliasCaller].held = @ \cup {doc.ID}]
    /\ UNCHANGED <<mu, pc, ctxDone, snap>>

\* AddJSON(id, jsonData): the map is made by json.Unmarshal inside the call
AliasAddJSON(id, jsonData) ==
    /\ call' = [call EXCEPT ![AliasCaller] =
                  [op |-> "AddJSON", id |-> id, jsonData |-> jsonData]]
    /\ IF Unmarshal(jsonData).failed
       THEN /\ ret' = [ret EXCEPT ![AliasCaller] = [err |-> "failed to unmarshal JSON"]]
            /\ UNCHANGED <<documents, idIndex, loc>>
       ELSE /\ StoreDocument(Document(id, Unmarshal(jsonData).fields))
            /\ ret' = [ret EXCEPT ![AliasCaller] = [err |-> "nil"]]
            /\ loc' = [loc EXCEPT ![AliasCaller].held = @ \ {id}]
    /\ UNCHANGED <<mu, pc, ctxDone, snap>>

\* RemoveDocument(id), from the Lock to the Unlock
AliasRemoveDocument(id) ==
    /\ call' = [call EXCEPT ![AliasCaller] = [op |-> "RemoveDocument", id |-> id]]
    /\ IF id \notin DOMAIN idIndex
       THEN /\ ret' = [ret EXCEPT ![AliasCaller] = [removed |-> FALSE]]
            /\ UNCHANGED <<documents, idIndex, loc>>
       ELSE /\ documents' = removeAt(documents, idIndex[id])
            /\ idIndex' = reindexFrom(idIndex, removeAt(documents, idIndex[id]), id, idIndex[id])
            /\ ret' = [ret EXCEPT ![AliasCaller] = [removed |-> TRUE]]
            /\ loc' = [loc EXCEPT ![AliasCaller].held = @ \ {id}]
    /\ UNCHANGED <<mu, pc, ctxDone, snap>>

\* Clear(), from the Lock to the Unlock
AliasClear ==
    /\ call' = [call EXCEPT ![AliasCaller] = [op |-> "Clear"]]
    /\ documents' = << >>
    /\ idIndex' = [id \in {} |-> 0]
    /\ ret' = [ret EXCEPT ![AliasCaller] = [void |-> TRUE]]
    /\ loc' = [loc EXCEPT ![AliasCaller].held = {}]
    /\ UNCHANGED <<mu, pc, ctxDone, snap>>

\* Search: Fields: match.document.Fields hands the caller the stored map
\* of every item
AliasSearch(query, opts) ==
    /\ call' = [call EXCEPT ![AliasCaller] = [op |-> "Search", query |-> query, opts |-> opts]]
    /\ ret' = [ret EXCEPT ![AliasCaller] = Search(documents, query, opts)]
    /\ loc' = [loc EXCEPT ![AliasCaller].held =
                  @ \cup {documents[i].ID : i \in
                            {i \in 1..Len(documents) :
                                \E k \in 1..Len(Search(documents, query, opts).res.Items) :
                                    Search(documents, query, opts).res.Items[k].ID
                                        = documents[i].ID}}]
    /\ UNCHANGED <<documents, idIndex, mu, pc, ctxDone, snap>>

\* the caller assigns to a map it holds, outside any call of the store: the
\* stored document of that id has the same map
AliasAssign(id, name, value) ==
    /\ id \in loc[AliasCaller].held
    /\ documents' = [documents EXCEPT ![idIndex[id]].Fields =
                        [f \in DOMAIN @ \cup {name} |-> IF f = name THEN value ELSE @[f]]]
    /\ call' = [call EXCEPT ![AliasCaller] =
                  [op |-> "assign", id |-> id, name |-> name, value |-> value]]
    /\ ret' = [ret EXCEPT ![AliasCaller] = NoRet]
    /\ UNCHANGED <<idIndex, mu, pc, loc, ctxDone, snap>>

AliasNext ==
    /\ UNCHANGED <<getClient, callCount>>
    /\ \/ \E id \in DocIDs, f \in FieldMaps : AliasAddDocument(Document(id, f))
       \/ \E id \in DocIDs, jv \in JSONTexts : AliasAddJSON(id, jv)
       \/ \E id \in DocIDs : AliasRemoveDocument(id)
       \/ AliasClear
       \/ \E query \in PageQueries : AliasSearch(query, << >>)
       \/ \E id \in DocIDs, name \in AliasNames, value \in AliasValues :
              AliasAssign(id, name, value)

SpecAlias == AliasInit /\ [][AliasNext]_vars

(***************************************************************************)
(* The lazily initialised Algolia client and its callers.                  *)
(***************************************************************************)
\* largest number of objects of a batch call
MaxBatch == 2

\* what a FetchSecrets function returns: secrets, or an error
Secrets(appID, writeApiKey) == [err |-> "nil", AppID |-> appID, WriteApiKey |-> writeApiKey]
FetchFailed == [err |-> "fetch failed"]

\* the FetchSecrets functions handed to NewClient, by what they return
FetchFunctions ==
    {Secrets("test-app", "test-key"), Secrets("", "test-key"), Secrets("test-app", ""),
     FetchFailed}

\* the function NewClient hands to sync.OnceValues, after fetchSecrets has
\* returned: the client and the error
initClient(secrets) ==
    IF secrets.err # "nil"
    THEN [client |-> "nil", err |-> "failed to fetch secrets: " \o secrets.err]
    ELSE IF secrets.AppID = "" THEN [client |-> "nil", err |-> "AppID is empty"]
    ELSE IF secrets.WriteApiKey = "" THEN [client |-> "nil", err |-> "WriteApiKey is empty"]
    ELSE [client |-> "search.Client", err |-> "nil"]

\* the errors of the Algolia API a call may meet
APIErrors == {"nil", "failed to reach Algolia"}

\* the operations of the client
ClientOps == {"SaveObject", "DeleteObject", "BatchSaveObjects", "BatchDeleteObjects"}

AlgoliaInit ==
    /\ documents = << >>
    /\ idIndex = [id \in {} |-> 0]
    /\ mu = [w |-> "free", r |-> 0]
    /\ pc = [p \in Procs |-> "idle"]
    /\ call = [p \in Procs |-> NoCall]
    /\ loc = [p \in Procs |-> NoLoc]
    /\ ret = [p \in Procs |-> NoRet]
    /\ ctxDone = [p \in Procs |-> FALSE]
    /\ snap = [p \in Procs |-> NoSnap]
    /\ getClient = NoClient
    /\ callCount = 0

\* NewClient(fetchSecrets): wraps the initialisation in sync.OnceValues
NewClient(fetchSecrets) ==
    /\ getClient = NoClient
    /\ getClient' = [state |-> "fresh", fetchSecrets |-> fetchSecrets]
    /\ UNCHANGED <<documents, idIndex, mu, pc, call, loc, ret, ctxDone, snap, callCount>>

\* SaveObject, DeleteObject, BatchSaveObjects, BatchDeleteObjects up to the
\* call of c.getClient(); n is the number of objects.  A batch call without
\* objects returns nil at once.  The call notes whether the initialisation
\* was over when it began.
CallClient(p, op, n) ==
    /\ pc[p] = "idle"
    /\ getClient # NoClient
    /\ call' = [call EXCEPT ![p] = [op |-> op, n |-> n, late |-> getClient.state = "done"]]
    /\ IF op \in {"BatchSaveObjects", "BatchDeleteObjects"} /\ n = 0
       THEN /\ ret' = [ret EXCEPT ![p] = [err |-> "nil"]]
            /\ pc' = [pc EXCEPT ![p] = "client_return"]
       ELSE /\ ret' = ret
            /\ pc' = [pc EXCEPT ![p] = "get_client"]
    /\ UNCHANGED <<documents, idIndex, mu, loc, ctxDone, snap, getClient, callCount>>

\* a Once that never takes the initialisation for done
onceDone_Never(g) == FALSE

\* once.done: the function handed to sync.OnceValues has returned
onceDone(g) == g.state = "done"

\* c.getClient(): the cached values if the initialisation is over; the
\* first caller starts it, and the others wait until it is over
GetClient(p) ==
    /\ pc[p] = "get_client"
    /\ IF onceDone(getClient)
       THEN /\ loc' = [loc EXCEPT ![p] = getClient.result]
            /\ pc' = [pc EXCEPT ![p] = "use_client"]
            /\ getClient' = getClient
       ELSE /\ getClient.state # "running"
            /\ getClient' = [state |-> "running", fetchSecrets |-> getClient.fetchSecrets]
            /\ pc' = [pc EXCEPT ![p] = "fetch_secrets"]
            /\ loc' = loc
    /\ UNCHANGED <<documents, idIndex, mu, call, ret, ctxDone, snap, callCount>>

\* secrets, err := fetchSecrets()
FetchSecrets(p) ==
    /\ pc[p] = "fetch_secrets"
    /\ callCount' = callCount + 1
    /\ loc' = [loc EXCEPT ![p] = getClient.fetchSecrets]
    /\ pc' = [pc EXCEPT ![p] = "init_client"]
    /\ UNCHANGED <<documents, idIndex, mu, call, ret, ctxDone, snap, getClient>>

\* the rest of the initialisation: its values are kept for every later call
InitClient(p) ==
    /\ pc[p] = "init_client"
    /\ getClient' = [state |-> "done", fetchSecrets |-> getClient.fetchSecrets,
                     result |-> initClient(loc[p])]
    /\ loc' = [loc EXCEPT ![p] = initClient(loc[p])]
    /\ pc' = [pc EXCEPT ![p] = "use_client"]
    /\ UNCHANGED <<documents, idIndex, mu, call, ret, ctxDone, snap, callCount>>

\* if err != nil { return err }, else the request to Algolia and its error
UseClient(p, apiErr) ==
    /\ pc[p] = "use_client"
    /\ ret' = [ret EXCEPT ![p] =
                  [err |-> IF loc[p].err # "nil" THEN loc[p].err ELSE apiErr]]
    /\ pc' = [pc EXCEPT ![p] = "client_return"]
    /\ UNCHANGED <<documents, idIndex, mu, call, loc, ctxDone, snap, getClient, callCount>>

\* the deferred span.End(), and the return to the caller
ClientReturn(p) ==
    /\ pc[p] = "client_return"
    /\ pc' = [pc EXCEPT ![p] = "idle"]
    /\ call' = [call EXCEPT ![p] = NoCall]
    /\ loc' = [loc EXCEPT ![p] = NoLoc]
    /\ ret' = [ret EXCEPT ![p] = NoRet]
    /\ UNCHANGED <<documents, idIndex, mu, ctxDone, snap, getClient, callCount>>

AlgoliaNext ==
    \/ \E fetchSecrets \in FetchFunctions : NewClient(fetchSecrets)
    \/ \E p \in Procs :
          \/ \E op \in ClientOps, n \in 0..MaxBatch : CallClient(p, op, n)
          \/ GetClient(p)
          \/ FetchSecrets(p)
          \/ InitClient(p)
          \/ \E apiErr \in APIErrors : UseClient(p, apiErr)
          \/ ClientReturn(p)

SpecAlgolia == AlgoliaInit /\ [][AlgoliaNext]_vars

(***************************************************************************)
(* Properties of the concurrent store.                                     *)
(***************************************************************************)
\* a caller at one of these holds the write lock
WriterSection == {"add_body", "add_append", "rm_body", "rm_reindex",
                  "clr_body", "clr_index", "w_unlock"}

\* a caller at one of these holds the read lock
ReaderSection == {"size_read", "search_scan", "r_unlock"}

\* a writer at one of these has changed one of documents and idIndex and
\* not yet the other
MidWrite == {"add_append", "rm_reindex", "clr_index"}

\* C1: operations are atomic.  A caller holding the write lock is alone in
\* the store; the store does not change while a caller holds the read lock;
\* a Search that was not cancelled returns what filtering, scoring, ranking
\* and paging give on the store as it was when it took the read lock, and
\* Size returns the length the store had then.
C1_AtomicOperations ==
    \A p \in Procs :
        /\ pc[p] \in WriterSection =>
              \A q \in Procs \ {p} : pc[q] \notin (WriterSection \cup ReaderSection)
        /\ pc[p] \in ReaderSection => snap[p] = Store
        /\ (pc[p] = "r_unlock" /\ call[p].op = "Search"
              /\ ret[p] # Returned(NilResults, "ErrCanceled")) =>
              ret[p] = Search(snap[p].documents, call[p].query, call[p].opts)
        /\ (pc[p] = "r_unlock" /\ call[p].op = "Size") =>
              ret[p].size = Len(snap[p].documents)

\* C1 witness: a Search returns a non-empty page while a writer that called
\* Lock during the scan waits for it.
C1_Witness ==
    \E p \in Procs, q \in Procs :
        /\ pc[p] = "r_unlock" /\ call[p].op = "Search"
        /\ ~ret[p].panic /\ ret[p].err = "nil" /\ ret[p].res.Total >= 2
        /\ pc[q] = "lock_wait"

\* the ids are pairwise distinct and the index maps each stored id, and
\* nothing else, to its position
IndexConsistent ==
    /\ \A i, j \in 1..Len(documents) : documents[i].ID = documents[j].ID => i = j
    /\ DOMAIN idIndex = {documents[i].ID : i \in 1..Len(documents)}
    /\ \A i \in 1..Len(documents) : idIndex[documents[i].ID] = i

\* C2: whenever no writer is between its two assignments, the document ids
\* are pairwise distinct and idIndex has exactly one entry per document,
\* the position of that document.
C2_IndexConsistent == (\A p \in Procs : pc[p] \notin MidWrite) => IndexConsistent

\* C2 witness: RemoveDocument has removed the first of two documents and
\* re-indexed the one that moved.
C2_Witness ==
    \E p \in Procs :
        /\ pc[p] = "w_unlock" /\ call[p].op = "RemoveDocument" /\ ret[p].removed
        /\ Len(documents) >= 1
        /\ snap[p].idIndex[documents[1].ID] = 2
        /\ \A q \in Procs : pc[q] \notin MidWrite

\* C3: AddDocument of a stored id replaces the document where it is.  The
\* size, the order of the ids and the index are as before the call, the
\* document at the id's position is the new one, and a call whose document
\* is the stored one leaves the store as it was.
C3_UpsertInPlace ==
    \A p \in Procs :
        (/\ pc[p] = "w_unlock"
         /\ call[p].op \in {"AddDocument", "AddJSON"}
         /\ call[p].doc.ID \in {snap[p].documents[i].ID : i \in 1..Len(snap[p].documents)}) =>
            LET before == snap[p].documents
                pos == CHOOSE i \in 1..Len(before) : before[i].ID = call[p].doc.ID
            IN /\ Len(documents) = Len(before)
               /\ IDsOf(documents) = IDsOf(before)
               /\ documents[pos] = call[p].doc
               /\ \A i \in 1..Len(before) : i # pos => documents[i] = before[i]
               /\ idIndex = snap[p].idIndex
               /\ before[pos] = call[p].doc => Store = snap[p]

\* C3 witness: AddDocument has replaced the first of two documents by one
\* with other fields.
C3_Witness ==
    \E p \in Procs :
        /\ pc[p] = "w_unlock" /\ call[p].op = "AddDocument"
        /\ Len(snap[p].documents) = 2
        /\ snap[p].documents[1].ID = call[p].doc.ID
        /\ snap[p].documents[1] # call[p].doc

C5_AddJSON ==
    /\ [][\A p \in Procs :
            LET failing(c) == c.op = "AddJSON" /\ c.jsonData.j \notin {"object", "null"}
                steps == call[p] # call'[p] \/ pc[p] # pc'[p]
            IN /\ failing(call'[p]) =>
                    /\ pc'[p] = "json_fail"
                    /\ "err" \in DOMAIN ret'[p] /\ ret'[p].err # "nil"
               /\ ((failing(call[p]) \/ failing(call'[p])) /\ steps) =>
                    (documents' = documents /\ idIndex' = idIndex)]_vars
    /\ [](\A p \in Procs :
            (pc[p] = "w_unlock" /\ call[p].op = "AddJSON") =>
                LET before == snap[p].documents
                    doc == call[p].doc
                    stored == \E i \in 1..Len(before) : before[i].ID = call[p].id
                IN /\ call[p].jsonData.j \in {"object", "null"}
                   /\ doc.ID = call[p].id
                   /\ call[p].jsonData.j = "null" => doc.Fields = NoFields
                   /\ call[p].jsonData.j = "object" =>
                         /\ DOMAIN doc.Fields = DOMAIN call[p].jsonData.m
                         /\ \A name \in DOMAIN doc.Fields :
                               doc.Fields[name] = decodeValue(call[p].jsonData.m[name])
                   /\ stored => documents = [before EXCEPT ![snap[p].idIndex[doc.ID]] = doc]
                   /\ ~stored => documents = Append(before, doc)
                   /\ ret[p] = [err |-> "nil"])

\* C5 witness: an AddJSON whose bytes are not JSON is about to return its
\* error while the store holds a document.
C5_Witness ==
    \E p \in Procs :
        /\ pc[p] = "json_fail" /\ call[p].jsonData.j = "invalid"
        /\ Len(documents) >= 1

Min(a, b) == IF a < b THEN a ELSE b
Max(a, b) == IF a > b THEN a ELSE b

\* the paging caller's Search has returned or panicked
PageDone == pc[PageCaller] = "returned"

\* it has returned results
PageOK == PageDone /\ ~ret[PageCaller].panic /\ ret[PageCaller].err = "nil"

PageQuery == call[PageCaller].query
PageRes == ret[PageCaller].res

\* the configuration as the caller's options set it, before the defaults
PageConfigured == ApplyAll(call[PageCaller].opts, SearchConfig)

\* the options that are filters
PageFilters == SelectSeq(call[PageCaller].opts, LAMBDA opt : "t" \in DOMAIN opt)

\* C7: Total is the number of stored documents that pass every filter and
\* score above 0, and it is the Total of the same search without limit,
\* offset and sort.
C7_TotalIsMatchCount ==
    PageOK =>
        /\ PageRes.Total =
              Cardinality({i \in 1..Len(documents) :
                              /\ \A k \in 1..Len(PageFilters) :
                                    evaluateExpression(documents[i], PageFilters[k])
                              /\ scoreDocument(documents[i], PageQuery) > 0})
        /\ PageRes.Total = Search(documents, PageQuery, PageFilters).res.Total

\* C7 witness: a page of 2 items from offset 3, sorted, of a search whose
\* query and filter reject some of the stored documents.
C7_Witness ==
    /\ PageOK
    /\ PageConfigured.Offset = 3 /\ PageConfigured.Limit = 2 /\ PageConfigured.Sort # << >>
    /\ PageQuery = S_go /\ PageFilters # << >>
    /\ PageRes.Total >= 5 /\ PageRes.Total + 2 <= Len(documents)

\* C8 as claimed: for offset >= 0 and limit >= 0 a Search that returns has
\* min(limit, max(0, total - offset)) items.
C8_ItemsAsClaimed ==
    (PageOK /\ PageConfigured.Offset >= 0 /\ PageConfigured.Limit >= 0) =>
        Len(PageRes.Items) =
            Min(PageConfigured.Limit, Max(0, PageRes.Total - PageConfigured.Offset))

\* the limit in effect: 10 for a configured limit of 0
PageEffectiveLimit == IF PageConfigured.Limit = 0 THEN 10 ELSE PageConfigured.Limit

\* C8 amended: for offset >= 0 and limit >= 0 with offset + L within the
\* machine int, where L is the limit, or 10 for the limit 0, Search returns
\* min(L, max(0, total - offset)) items.
C8_ItemsWithDefaultLimit ==
    (/\ PageDone
     /\ PageConfigured.Offset >= 0 /\ PageConfigured.Limit >= 0
     /\ PageConfigured.Offset + PageEffectiveLimit <= MaxInt) =>
        /\ PageOK
        /\ Len(PageRes.Items) =
              Min(PageEffectiveLimit, Max(0, PageRes.Total - PageConfigured.Offset))

\* C8 witness: a search with limit 0 from offset 1 returns 10 of 12 matches.
C8_Witness ==
    /\ PageOK
    /\ PageConfigured.Offset = 1 /\ PageConfigured.Limit = 0
    /\ PageRes.Total = 12 /\ Len(PageRes.Items) = 10

\* C9: for offset >= 0, NextOffset is set iff offset + len(items) < total,
\* and then it is offset + len(items).
C9_NextOffset ==
    (PageOK /\ PageConfigured.Offset >= 0) =>
        LET reached == PageConfigured.Offset + Len(PageRes.Items)
        IN /\ (PageRes.NextOffset # << >>) <=> (reached < PageRes.Total)
           /\ PageRes.NextOffset # << >> => PageRes.NextOffset = <<reached>>

\* C9 witness: a page of 2 items from offset 3 with more matches behind it.
C9_Witness ==
    /\ PageOK
    /\ PageConfigured.Offset = 3 /\ Len(PageRes.Items) = 2
    /\ PageRes.NextOffset = <<5>>

\* C10: a Search with configured limit 0 returns what the same Search with
\* WithLimit(10) returns: at most 10 items, and NextOffset = offset + 10
\* when more than offset + 10 documents match.
C10_ZeroLimitIsTen ==
    (PageDone /\ PageConfigured.Limit = 0) =>
        /\ ret[PageCaller] =
              Search(documents, PageQuery, call[PageCaller].opts \o <<WithLimit(10)>>)
        /\ PageOK =>
              /\ Len(PageRes.Items) <= 10
              /\ (PageConfigured.Offset >= 0 /\ PageRes.Total > PageConfigured.Offset + 10) =>
                    /\ Len(PageRes.Items) = 10
                    /\ PageRes.NextOffset = <<PageConfigured.Offset + 10>>

\* C10 witness: a Search with WithLimit(0) from offset 1 over 12 matches
\* returns 10 items and NextOffset 11.
C10_Witness ==
    /\ PageOK
    /\ \E i \in 1..Len(call[PageCaller].opts) : call[PageCaller].opts[i] = WithLimit(0)
    /\ PageConfigured.Offset = 1
    /\ PageRes.Total = 12
    /\ PageRes.NextOffset = <<11>>

(***************************************************************************)
(* Properties of the expression evaluator.                                 *)
(***************************************************************************)
\* the caller's evaluateExpression has returned
Evaluated == pc[EvalCaller] = "returned" /\ call[EvalCaller].op = "evaluateExpression"

EvalDoc == call[EvalCaller].doc
EvalExpr == call[EvalCaller].expr
EvalResult == ret[EvalCaller].ok

\* the caller's Search has returned results
Searched ==
    /\ pc[EvalCaller] = "returned" /\ call[EvalCaller].op = "Search"
    /\ ~ret[EvalCaller].panic /\ ret[EvalCaller].err = "nil"

\* the set of ids of the items of a result
ItemIDs(res) == {res.Items[i].ID : i \in 1..Len(res.Items)}

\* C11: And is true iff every operand is true (true without operands), Or
\* iff some operand is true (false without operands), Not iff its operand
\* is false; a Search whose options are filters returns what the Search
\* with the one filter And(filters) returns, the documents that And(filters)
\* admits and that score above 0.
C11_BooleanConnectives ==
    /\ (Evaluated /\ EvalExpr.t = "And") =>
          (EvalResult <=>
              \A i \in 1..Len(EvalExpr.Exprs) : evaluateExpression(EvalDoc, EvalExpr.Exprs[i]))
    /\ (Evaluated /\ EvalExpr.t = "And" /\ EvalExpr.Exprs = << >>) => EvalResult
    /\ (Evaluated /\ EvalExpr.t = "Or") =>
          (EvalResult <=>
              \E i \in 1..Len(EvalExpr.Exprs) : evaluateExpression(EvalDoc, EvalExpr.Exprs[i]))
    /\ (Evaluated /\ EvalExpr.t = "Or" /\ EvalExpr.Exprs = << >>) => ~EvalResult
    /\ (Evaluated /\ EvalExpr.t = "Not") =>
          (EvalResult <=> ~evaluateExpression(EvalDoc, EvalExpr.Inner))
    /\ Searched =>
          LET filters == call[EvalCaller].opts
              query == call[EvalCaller].query
          IN /\ ret[EvalCaller] = Search(documents, query, <<And(filters)>>)
             /\ ItemIDs(ret[EvalCaller].res) =
                   {documents[i].ID : i \in
                       {j \in 1..Len(documents) :
                           /\ evaluateExpression(documents[j], And(filters))
                           /\ scoreDocument(documents[j], query) > 0}}

\* C11 witness: a Search with two filters, an Or and an Exists, over two
\* documents returns the one that passes both; the other fails the Or.
C11_Witness ==
    /\ Searched
    /\ call[EvalCaller].opts =
          <<Or(<<Eq("year", VInt(2)), Lt("year", VInt(2))>>), Exists("year")>>
    /\ Len(documents) = 2
    /\ evaluateExpression(documents[1], Exists("year"))
    /\ ItemIDs(ret[EvalCaller].res) = {documents[2].ID}

\* the evaluated expression names a field the document lacks
EvalAbsent == EvalExpr.Field \notin DOMAIN EvalDoc.Fields

\* the document's value of the field the evaluated expression names
EvalStored == EvalDoc.Fields[EvalExpr.Field]

\* C12: Eq(field, v) on a document without the field is true iff v is
\* null, and on a document with the field it is the equality rule on the
\* stored value; Ne(field, v) is the negation of Eq(field, v) whether the
\* field is missing, null or not null.
C12_EqNe ==
    /\ (Evaluated /\ EvalExpr.t = "Eq") =>
          /\ EvalAbsent => (EvalResult <=> EvalExpr.Value = VNil)
          /\ ~EvalAbsent => (EvalResult <=> compareEqual(EvalStored, EvalExpr.Value))
          /\ EvalResult <=> ~evaluateExpression(EvalDoc, Ne(EvalExpr.Field, EvalExpr.Value))
    /\ (Evaluated /\ EvalExpr.t = "Ne") =>
          (EvalResult <=> ~evaluateExpression(EvalDoc, Eq(EvalExpr.Field, EvalExpr.Value)))

\* C12 witness: Ne with a value that is not null is true on a document
\* that lacks the field.
C12_Witness ==
    /\ Evaluated /\ EvalExpr = Ne("year", VInt(2))
    /\ EvalAbsent /\ EvalResult

\* C13: Gt, Gte, Lt and Lte are false on a document without the field,
\* whatever the value (null too), so that Lt(f, v) and Not(Gte(f, v)) differ
\* there; on a document with the field they are compareValues(stored, v)
\* > 0, >= 0, < 0 and <= 0.
C13_OrderingComparisons ==
    (Evaluated /\ EvalExpr.t \in {"Gt", "Gte", "Lt", "Lte"}) =>
        /\ EvalAbsent => ~EvalResult
        /\ ~EvalAbsent =>
              LET cmp == compareValues(EvalStored, EvalExpr.Value)
              IN EvalResult <=>
                    CASE EvalExpr.t = "Gt" -> cmp > 0
                      [] EvalExpr.t = "Gte" -> cmp >= 0
                      [] EvalExpr.t = "Lt" -> cmp < 0
                      [] EvalExpr.t = "Lte" -> cmp <= 0
        /\ (EvalAbsent /\ EvalExpr.t = "Lt") =>
              EvalResult # evaluateExpression(EvalDoc, Not(Gte(EvalExpr.Field, EvalExpr.Value)))

\* C13 witness: Lt with the value null is false on a document that lacks
\* the field, and Not(Gte) with that value is true on it.
C13_Witness ==
    /\ Evaluated /\ EvalExpr = Lt("year", VNil)
    /\ EvalAbsent /\ ~EvalResult
    /\ evaluateExpression(EvalDoc, Not(Gte("year", VNil)))

\* C14: Range is false on a document without the field; with the field it
\* is true iff the stored value is at or above a min that is not null and
\* at or below a max that is not null.  With both bounds it is
\* And(Gte(field, min), Lte(field, max)), with neither it is Exists(field).
C14_Range ==
    (Evaluated /\ EvalExpr.t = "Range") =>
        LET lo == EvalExpr.Min
            hi == EvalExpr.Max
        IN /\ EvalAbsent => ~EvalResult
           /\ ~EvalAbsent =>
                 (EvalResult <=>
                     /\ lo # VNil => compareValues(EvalStored, lo) >= 0
                     /\ hi # VNil => compareValues(EvalStored, hi) <= 0)
           /\ (lo # VNil /\ hi # VNil) =>
                 (EvalResult <=>
                     evaluateExpression(EvalDoc,
                         And(<<Gte(EvalExpr.Field, lo), Lte(EvalExpr.Field, hi)>>)))
           /\ (lo = VNil /\ hi = VNil) =>
                 (EvalResult <=> evaluateExpression(EvalDoc, Exists(EvalExpr.Field)))

\* C14 witness: Range from the int 1 to the int 2 is true on a document
\* whose field is the float 2.0, the upper bound.
C14_Witness ==
    /\ Evaluated /\ EvalExpr = Range("year", VInt(1), VInt(2))
    /\ ~EvalAbsent /\ EvalStored = VFloat(4)
    /\ EvalResult

(***************************************************************************)
(* Properties of the comparison of values.                                 *)
(***************************************************************************)
\* the caller's compareEqual, compareValues has returned
ComparedEqual == pc[EvalCaller] = "returned" /\ call[EvalCaller].op = "compareEqual"
ComparedValues == pc[EvalCaller] = "returned" /\ call[EvalCaller].op = "compareValues"

\* the value is of an integer or float kind
IsNumeric(v) == v.k \in {"int", "float"}

\* the normalized number of a numeric value that is not NaN, in halves
Halves(v) == IF v.k = "int" THEN 2 * v.n ELSE v.h

\* C15: compareEqual holds of two nulls and not of a null and a non-null
\* value; of two numeric values it holds iff their normalized numbers are
\* equal; of any other pair iff the canonical renderings are the same
\* string; and it holds iff compareValues returns 0.
C15_EqualityRule ==
    ComparedEqual =>
        LET v1 == call[EvalCaller].v1
            v2 == call[EvalCaller].v2
            eq == ret[EvalCaller].eq
        IN /\ (v1 = VNil /\ v2 = VNil) => eq
           /\ ((v1 = VNil) # (v2 = VNil)) => ~eq
           /\ (v1 # VNil /\ v2 # VNil /\ IsNumeric(v1) /\ IsNumeric(v2)) =>
                 (eq <=> (v1 # VNaN /\ v2 # VNaN /\ Halves(v1) = Halves(v2)))
           /\ (v1 # VNil /\ v2 # VNil /\ ~(IsNumeric(v1) /\ IsNumeric(v2))) =>
                 (eq <=> Sprintv(v1) = Sprintv(v2))
           /\ eq <=> (compareValues(v1, v2) = 0)

\* C16: compareValues returns -1, 0 or 1: 0 for two nulls, -1 for a null
\* and a non-null value; for two numeric values the order of their
\* normalized numbers (0 when neither is less than the other); for any
\* other pair the lexicographic order of the canonical renderings; and
\* compareValues(a, b) = -compareValues(b, a).  An int and the float of
\* the same number compare 0, and Eq with the one agrees with Eq with the
\* other.
C16_CompareValues ==
    /\ ComparedValues =>
          LET v1 == call[EvalCaller].v1
              v2 == call[EvalCaller].v2
              cmp == ret[EvalCaller].cmp
          IN /\ cmp \in {-1, 0, 1}
             /\ (v1 = VNil /\ v2 = VNil) => cmp = 0
             /\ (v1 = VNil /\ v2 # VNil) => cmp = -1
             /\ (v1 # VNil /\ v2 # VNil /\ IsNumeric(v1) /\ IsNumeric(v2)) =>
                   cmp = (IF v1 = VNaN \/ v2 = VNaN THEN 0
                          ELSE IF Halves(v1) < Halves(v2) THEN -1
                          ELSE IF Halves(v1) > Halves(v2) THEN 1
                          ELSE 0)
             /\ (v1 # VNil /\ v2 # VNil /\ ~(IsNumeric(v1) /\ IsNumeric(v2))) =>
                   cmp = StrCompare(Sprintv(v1), Sprintv(v2))
             /\ cmp = -compareValues(v2, v1)
    /\ (Evaluated /\ EvalExpr.t = "Eq" /\ EvalExpr.Value.k = "int") =>
          (EvalResult <=>
              evaluateExpression(EvalDoc, Eq(EvalExpr.Field, VFloat(2 * EvalExpr.Value.n))))

\* C16 witness: compareValues of the int 10 and the float 2.0 returns 1,
\* the order of the numbers and not of the renderings.
C16_Witness ==
    /\ ComparedValues
    /\ call[EvalCaller].v1 = VInt(10) /\ call[EvalCaller].v2 = VFloat(4)
    /\ ret[EvalCaller].cmp = 1

(***************************************************************************)
(* Properties of the relevance scorer.                                     *)
(***************************************************************************)
\* the caller's scoreDocument has returned
Scored == pc[EvalCaller] = "returned" /\ call[EvalCaller].op = "scoreDocument"

\* the terms of a query
TermsOf(query) == StrFields(ToLower(query))

\* the top-level fields of x whose value contains the term
FieldsContaining(x, term) == {f \in DOMAIN x.Fields : valueContainsTerm(x.Fields[f], term)}

\* the sum over the terms, duplicates included, of the number of fields
\* containing the term
RECURSIVE HitsOfTerms(_, _)
HitsOfTerms(x, terms) ==
    IF terms = << >> THEN 0
    ELSE Cardinality(FieldsContaining(x, Head(terms))) + HitsOfTerms(x, Tail(terms))

C18_AllTermsBoost ==
    (Searched /\ Len(TermsOf(call[EvalCaller].query)) >= 2) =>
        LET terms == TermsOf(call[EvalCaller].query)
            items == ret[EvalCaller].res.Items
            hits(x, t) == Cardinality(FieldsContaining(x, terms[t]))
            matched(x) == {t \in 1..Len(terms) : hits(x, t) > 0}
        IN \A i, j \in 1..Len(items) :
              (/\ matched(items[i]) = 1..Len(terms)
               /\ matched(items[j]) # {}
               /\ matched(items[j]) # 1..Len(terms)
               /\ \A t \in matched(items[j]) : hits(items[i], t) = hits(items[j], t)) =>
                  2 * items[i].Score >= 3 * items[j].Score

\* C18 witness: for the query "go go py" a document with go in two fields
\* and py in one scores 7.5, and a document with go in two fields and py in
\* none scores 4.0.
C18_Witness ==
    /\ Searched
    /\ call[EvalCaller].query = S_go_go_py
    /\ Len(ret[EvalCaller].res.Items) = 2
    /\ ret[EvalCaller].res.Items[1].Score = 15
    /\ ret[EvalCaller].res.Items[2].Score = 8
    /\ Cardinality(FieldsContaining(ret[EvalCaller].res.Items[1], S_go)) = 2
    /\ Cardinality(FieldsContaining(ret[EvalCaller].res.Items[2], S_go)) = 2
    /\ FieldsContaining(ret[EvalCaller].res.Items[2], S_py) = {}

(***************************************************************************)
(* Properties of the ranker.                                               *)
(***************************************************************************)
\* the sort specification of the caller's Search
SearchedSort == ApplyAll(call[EvalCaller].opts, SearchConfig).Sort

\* how the items x and y compare on one sort key: -1, 0 or 1
KeyOrder(x, y, sf) ==
    IF sf.Field = "_score"
    THEN (IF x.Score < y.Score THEN -1 ELSE IF x.Score > y.Score THEN 1 ELSE 0)
    ELSE compareValues(FieldValue(x, sf.Field), FieldValue(y, sf.Field))

\* the first key on which x and y compare unequal, if any, has x before y
\* in the direction of that key
RECURSIVE InOrder(_, _, _)
InOrder(x, y, keys) ==
    IF keys = << >> THEN TRUE
    ELSE IF KeyOrder(x, y, Head(keys)) # 0
         THEN (IF Head(keys).Desc THEN KeyOrder(x, y, Head(keys)) > 0
               ELSE KeyOrder(x, y, Head(keys)) < 0)
         ELSE InOrder(x, y, Tail(keys))

\* C19: the items of a Search are ordered by the sort specification: of
\* any two items the earlier one comes first by the first sort key on which
\* they compare unequal, whatever the kinds of the sort-field values; and a
\* Search without sort specification returns what the Search sorted by
\* (_score, descending) returns.
C19_Ranked ==
    Searched =>
        LET items == ret[EvalCaller].res.Items
            keys == IF SearchedSort = << >> THEN <<[Field |-> "_score", Desc |-> TRUE]>>
                    ELSE SearchedSort
        IN /\ \A i, j \in 1..Len(items) : i < j => InOrder(items[i], items[j], keys)
           /\ SearchedSort = << >> =>
                 ret[EvalCaller] =
                    Search(documents, call[EvalCaller].query, <<WithSort("_score", TRUE)>>)

\* C20: in a Search sorted first on a field, an item that lacks the field
\* comes before every item that has it with a value that is not null when
\* the direction is ascending, and after every such item when it is
\* descending.
C20_MissingFieldOrder ==
    (Searched /\ SearchedSort # << >>) =>
        LET items == ret[EvalCaller].res.Items
            key == SearchedSort[1]
            missing(x) == key.Field \notin DOMAIN x.Fields
            valued(x) == key.Field \in DOMAIN x.Fields /\ x.Fields[key.Field] # VNil
        IN key.Field # "_score" =>
              \A i, j \in 1..Len(items) :
                  (missing(items[i]) /\ valued(items[j])) =>
                      (IF key.Desc THEN j < i ELSE i < j)

\* C20 witness: a Search sorted on rank, descending, over three documents
\* of which the first lacks rank and the others have one, returns the first
\* document last.
C20_Witness ==
    /\ Searched
    /\ SearchedSort = <<[Field |-> "rank", Desc |-> TRUE]>>
    /\ Len(documents) = 3
    /\ "rank" \notin DOMAIN documents[1].Fields
    /\ FieldValue(documents[2], "rank") = VInt(2)
    /\ FieldValue(documents[3], "rank") = VStr(S_1a)
    /\ Len(ret[EvalCaller].res.Items) = 3
    /\ ret[EvalCaller].res.Items[3].ID = documents[1].ID

(***************************************************************************)
(* Properties of the lazily initialised Algolia client.                    *)
(***************************************************************************)
\* the caller p has its result in hand and is about to return
ClientDone(p) == pc[p] = "client_return"

\* the call of p is a batch call without objects
EmptyBatch(p) == call[p].op \in {"BatchSaveObjects", "BatchDeleteObjects"} /\ call[p].n = 0

\* C21, as stated: the secrets are fetched at most once, never by NewClient,
\* and once the initialisation has failed every later call of the client,
\* whatever it is, returns the initialisation error.
C21_EveryLaterCallFails ==
    /\ callCount <= 1
    /\ getClient.state = "fresh" => callCount = 0
    /\ \A p \in Procs :
          ClientDone(p) /\ call[p].late /\ getClient.result.err # "nil"
              => ret[p].err = getClient.result.err

\* C21, amended: NewClient does not fetch the secrets; they are fetched at
\* most once, and exactly once as soon as a SaveObject, a DeleteObject or a
\* batch call with objects has obtained the client; the outcome of the
\* initialisation is what the fetched secrets determine, and every such call
\* returns it when it is an error; a batch call without objects returns nil
\* without fetching and whatever the outcome was.
C21_LazyOnce ==
    /\ callCount <= 1
    /\ getClient.state \in {"none", "fresh"} => callCount = 0
    /\ getClient.state = "done"
          => /\ callCount = 1
             /\ getClient.result = initClient(getClient.fetchSecrets)
    /\ \A p \in Procs :
          /\ pc[p] = "use_client"
                => /\ callCount = 1
                   /\ getClient.state = "done"
                   /\ loc[p] = getClient.result
          /\ ClientDone(p) /\ ~EmptyBatch(p)
                => /\ callCount = 1
                   /\ getClient.state = "done"
                   /\ getClient.result.err # "nil" => ret[p].err = getClient.result.err
                   /\ getClient.result.err = "nil" => ret[p].err \in APIErrors
          /\ ClientDone(p) /\ EmptyBatch(p) => ret[p].err = "nil"

\* a call that began after a failed initialisation returns the cached error
C21_Witness ==
    \E p \in Procs :
        /\ ClientDone(p)
        /\ call[p].op = "BatchSaveObjects"
        /\ call[p].n = 1
        /\ call[p].late
        /\ getClient.fetchSecrets = FetchFailed
        /\ ret[p].err = "failed to fetch secrets: fetch failed"
        /\ callCount = 1

(***************************************************************************)
(* Cancellation of a Search in progress.                                   *)
(***************************************************************************)
\* the Search of p has its outcome in hand
SearchOutcome(p) == call[p].op = "Search" /\ pc[p] \in {"search_return", "r_unlock"}

\* C22: a cancellation that fires before Search or while it runs (while it
\* waits for the lock or scans, before the ranking and the slicing) makes
\* Search return ErrCanceled and no results.
C22_CancelledAtAnyMoment ==
    \A p \in Procs : SearchOutcome(p) /\ ctxDone[p] => ret[p] = canceledReturn

(***************************************************************************)
(* Offsets and limits of every sign and size.                              *)
(***************************************************************************)
\* C23: whatever offset and limit the options carry, Search does not fail:
\* it returns an envelope and no error, whose items are a slice of the
\* candidates within [0, total].
C23_ClampedForEveryOffsetAndLimit ==
    PageDone =>
        /\ ~ret[PageCaller].panic
        /\ ret[PageCaller].err = "nil"
        /\ Len(PageRes.Items) <= PageRes.Total

(***************************************************************************)
(* Candidates without the sort field.                                      *)
(***************************************************************************)
\* the item has no value for the field: it lacks it, or holds null
Valueless(x, field) == FieldValue(x, field) = VNil

\* C24, as stated: in a Search sorted first on a field, an item that lacks
\* the field comes after every item that has a value for it when the
\* direction is ascending, and before every such item when it is descending.
C24_MissingLastAscending ==
    (Searched /\ SearchedSort # << >>) =>
        LET items == ret[EvalCaller].res.Items
            key == SearchedSort[1]
        IN key.Field # "_score" =>
              \A i, j \in 1..Len(items) :
                  (key.Field \notin DOMAIN items[i].Fields /\ ~Valueless(items[j], key.Field)) =>
                      (IF key.Desc THEN i < j ELSE j < i)

\* C24, amended: in a Search sorted first on a field, the items without a
\* value for the field (those that lack it and those that hold null) are
\* the head of the result when the direction is ascending and its tail when
\* it is descending; their number is the number of such candidates.
C24_ValuelessFirstAscending ==
    (Searched /\ SearchedSort # << >>) =>
        LET items == ret[EvalCaller].res.Items
            key == SearchedSort[1]
            k == Cardinality({i \in 1..Len(items) : Valueless(items[i], key.Field)})
        IN key.Field # "_score" =>
              \A i \in 1..Len(items) :
                  Valueless(items[i], key.Field) <=>
                      (IF key.Desc THEN i > Len(items) - k ELSE i <= k)

\* C24 witness: an ascending Search on rank over a document with rank 2, a
\* document without rank and a document whose rank is null returns the
\* document with rank 2 last.
C24_Witness ==
    /\ Searched
    /\ SearchedSort = <<[Field |-> "rank", Desc |-> FALSE]>>
    /\ Len(documents) = 3
    /\ FieldValue(documents[1], "rank") = VInt(2)
    /\ "rank" \notin DOMAIN documents[2].Fields
    /\ "rank" \in DOMAIN documents[3].Fields /\ documents[3].Fields["rank"] = VNil
    /\ Len(ret[EvalCaller].res.Items) = 3
    /\ ret[EvalCaller].res.Items[3].ID = documents[1].ID

(***************************************************************************)
(* The order of candidates that tie.                                       *)
(***************************************************************************)
\* the sort keys of the search: those of its options, or the score,
\* descending, without any
TieKeys == IF SearchedSort = << >> THEN <<[Field |-> "_score", Desc |-> TRUE]>> ELSE SearchedSort

\* the items x and y tie on every sort key
Tied(x, y) == \A k \in 1..Len(TieKeys) : KeyOrder(x, y, TieKeys[k]) = 0

\* the items that tie are in the order in which the store holds them
TiesInScanOrder ==
    LET items == ret[EvalCaller].res.Items
    IN \A i, j \in 1..Len(items) :
          (i < j /\ Tied(items[i], items[j])) => idIndex[items[i].ID] < idIndex[items[j].ID]

\* C25, as stated: the candidates that tie on every sort key are returned
\* in scan order, however many candidates there are.
C25_TiesInScanOrderAlways == Searched => TiesInScanOrder

\* C25, amended: of at most 12 candidates (the most that sort.Slice sorts by
\* insertion), those that tie on every sort key are returned in scan order.
C25_TiesInScanOrderUpTo12 ==
    (Searched /\ ret[EvalCaller].res.Total <= maxInsertion) => TiesInScanOrder

\* C25 witness: of 12 candidates the last has the higher score and the
\* others tie; the default Search returns the last first and then the
\* others as the store holds them.
C25_Witness ==
    /\ Searched
    /\ SearchedSort = << >>
    /\ ret[EvalCaller].res.Total = maxInsertion
    /\ Len(ret[EvalCaller].res.Items) = maxInsertion
    /\ \A i \in 1..(maxInsertion - 1) : DOMAIN documents[i].Fields = {"title"}
    /\ DOMAIN documents[maxInsertion].Fields = {"title", "body"}
    /\ ret[EvalCaller].res.Items[1].ID = documents[maxInsertion].ID
    /\ \A i \in 2..maxInsertion : ret[EvalCaller].res.Items[i].ID = documents[i - 1].ID

(***************************************************************************)
(* What changes the fields of a stored document.                           *)
(***************************************************************************)
\* the fields the store holds for the id, or that it holds none
StoredFields(docs, index, id) ==
    IF id \in DOMAIN index THEN [stored |-> TRUE, Fields |-> docs[index[id]].Fields]
    ELSE [stored |-> FALSE]

\* C26: the fields of a stored document change, and so does what Search
\* observes for it, only in a step of AddDocument, AddJSON, RemoveDocument
\* or Clear; what the caller does to the maps it handed over or was handed
\* changes nothing in the store.
C26_FieldsChangeOnlyByStoreCalls ==
    [][\A id \in DocIDs :
          StoredFields(documents', idIndex', id) # StoredFields(documents, idIndex, id)
              => call'[AliasCaller].op \in {"AddDocument", "AddJSON", "RemoveDocument", "Clear"}]_vars

(***************************************************************************)
(* Expressions that the evaluator's switch does not list.                  *)
(***************************************************************************)
\* the caller's Search has ended, with results or in a panic
SearchEnded == pc[EvalCaller] = "returned" /\ call[EvalCaller].op = "Search"

\* the Search of the same query with the given filters
SameSearch(filters) == Search(documents, call[EvalCaller].query, filters)

\* C27, as stated: an expression that is not of one of the eleven listed
\* types, the nil expression and a pointer to a listed one included,
\* evaluates to true on every document; as the one filter of a Search it
\* excludes nothing, and Not of it excludes every document.
C27_UnlistedExcludesNothing ==
    /\ (Evaluated /\ EvalExpr \in UnlistedExprs) => EvalResult
    /\ (Evaluated /\ EvalExpr.t = "Not" /\ EvalExpr.Inner \in UnlistedExprs) => ~EvalResult
    /\ \A u \in UnlistedExprs :
          /\ (SearchEnded /\ call[EvalCaller].opts = <<u>>)
                => ret[EvalCaller] = SameSearch(<< >>)
          /\ (SearchEnded /\ call[EvalCaller].opts = <<Not(u)>>)
                => /\ ~ret[EvalCaller].panic
                   /\ ret[EvalCaller].res.Items = << >>

\* What the code does with such expressions: evaluateExpression yields true for such an expression on
\* every document, so Not of it yields false, And takes it for true and Or
\* of it is true; a Search with the filter Not of it returns nothing.  As
\* an option of Search, an expression of another type excludes nothing, a
\* pointer to a listed expression filters as that expression does, and the
\* nil expression makes Search panic.
UnlistedIsTrue ==
    /\ (Evaluated /\ EvalExpr \in UnlistedExprs) => EvalResult
    /\ (Evaluated /\ EvalExpr.t = "Not" /\ EvalExpr.Inner \in UnlistedExprs) => ~EvalResult
    /\ (Evaluated /\ EvalExpr.t = "And" /\ EvalExpr.Exprs[1] \in UnlistedExprs)
          => (EvalResult <=> "year" \in DOMAIN EvalDoc.Fields)
    /\ (Evaluated /\ EvalExpr.t = "Or" /\ EvalExpr.Exprs[1] \in UnlistedExprs) => EvalResult
    /\ \A u \in UnlistedExprs :
          /\ (SearchEnded /\ call[EvalCaller].opts = <<u>>)
                => ret[EvalCaller] =
                      CASE u.t = "nil" -> Panicked
                        [] u.t = "ptr" -> SameSearch(<<u.Elem>>)
                        [] OTHER -> SameSearch(<< >>)
          /\ (SearchEnded /\ call[EvalCaller].opts = <<Not(u)>>)
                => /\ ~ret[EvalCaller].panic
                   /\ ret[EvalCaller].res.Items = << >>
                   /\ ret[EvalCaller].res.Total = 0

\* The pointer case happens: a Search whose filter is a pointer to Eq(year, 2), over a
\* document with another year and a book of the year 2, returns the book
\* alone.
UnlistedPointerFilters ==
    /\ SearchEnded
    /\ call[EvalCaller].opts = <<PtrTo(Eq("year", VInt(2)))>>
    /\ call[EvalCaller].query = S_empty
    /\ Len(documents) = 2
    /\ FieldValue(documents[1], "year") = VInt(1)
    /\ ~ret[EvalCaller].panic
    /\ ItemIDs(ret[EvalCaller].res) = {"b"}

(***************************************************************************)
(* MaxScore of a page.                                                     *)
(***************************************************************************)
\* C28: in the results of a Search, MaxScore is the greatest Score among
\* the items of the returned page, whatever the scores of the matches left
\* out of the page, and 0 when the page has no items; every item of the
\* page has a Score above 0.
C28_MaxScoreOfPage ==
    Searched =>
        LET res == ret[EvalCaller].res
            scores == {res.Items[i].Score : i \in 1..Len(res.Items)}
        IN /\ (scores = {}) => res.MaxScore = 0
           /\ (scores # {}) => (res.MaxScore \in scores /\ \A x \in scores : x <= res.MaxScore)
           /\ \A x \in scores : x > 0

\* C28 witness: a page of two items that leaves out a match with a score
\* above the page's MaxScore.
C28_Witness ==
    /\ Searched
    /\ Len(ret[EvalCaller].res.Items) = 2
    /\ ret[EvalCaller].res.Total = 3
    /\ \E d \in 1..Len(documents) :
          /\ documents[d].ID \notin ItemIDs(ret[EvalCaller].res)
          /\ scoreDocument(documents[d], call[EvalCaller].query) > ret[EvalCaller].res.MaxScore

(***************************************************************************)
(* Reading every page.                                                     *)
(***************************************************************************)
\* the loop of paginatedSearch is running, has ended
Paging == pc[PageCaller] = "paging" /\ call[PageCaller].op = "paginatedSearch"
Paged == pc[PageCaller] = "returned" /\ call[PageCaller].op = "paginatedSearch"

\* the documents of the store that the loop's query and filters match
PagedMatches ==
    {d \in 1..Len(documents) :
        /\ matchesFilters(documents[d], ApplyAll(call[PageCaller].opts, SearchConfig).Filters)
        /\ scoreDocument(documents[d], call[PageCaller].query) > 0}

\* the ids in the order of one Search that returns every match on one page
RankedIDs ==
    LET all == Search(documents, call[PageCaller].query,
                      <<WithLimit(MaxInt)>> \o call[PageCaller].opts).res.Items
    IN [i \in 1..Len(all) |-> all[i].ID]

\* the number of pages of a given size that hold total matches
PagesOf(total, size) == IF total = 0 THEN 1 ELSE (total + size - 1) \div size

\* C29: over an unchanged store, with a fixed query, filters, sort and a
\* limit L > 0, the loop that starts at offset 0 and searches again at each
\* returned NextOffset until there is none ends; it has then made
\* ceil(total / L) calls (one call when total is 0), and the pages, one
\* after the other, hold the id of every matching document exactly once,
\* in ranked order.
C29_PagingReadsAllOnce ==
    /\ [](Paged =>
            /\ ~ret[PageCaller].panic /\ ret[PageCaller].err = "nil"
            /\ loc[PageCaller].calls =
                  PagesOf(Cardinality(PagedMatches), call[PageCaller].pageSize)
            /\ ret[PageCaller].res.Total = Cardinality(PagedMatches)
            /\ Len(loc[PageCaller].ids) = Cardinality(PagedMatches)
            /\ {loc[PageCaller].ids[i] : i \in 1..Len(loc[PageCaller].ids)}
                  = {documents[d].ID : d \in PagedMatches}
            /\ loc[PageCaller].ids = RankedIDs)
    /\ (Paging ~> Paged)

\* C29 witness: the loop has ended after three calls with pages of two,
\* over five matches sorted by index from the highest.
C29_Witness ==
    /\ Paged
    /\ call[PageCaller].pageSize = 2
    /\ loc[PageCaller].calls = 3
    /\ loc[PageCaller].ids = <<"5", "4", "3", "2", "1">>

(***************************************************************************)
(* The lock of the store.                                                  *)
(***************************************************************************)
\* where a call holds the write lock, the read lock
WriteHeldAt == {"add_body", "add_append", "rm_body", "rm_reindex", "clr_body",
                "clr_index", "w_unlock"}
ReadHeldAt == {"size_read", "search_scan", "r_unlock"}

\* where a call is about to take the lock
AcquiringAt == {"add_lock", "rm_lock", "clr_lock", "size_rlock", "search_rlock"}

\* the caller waits for the lock and cannot take it now
Blocked(p) ==
    \/ pc[p] \in {"add_lock", "rm_lock", "clr_lock"} /\ mu.w # "free"
    \/ pc[p] = "lock_wait" /\ ~readersDrained(mu)
    \/ pc[p] \in {"size_rlock", "search_rlock"} /\ ~canRLock(mu)

\* C30: every operation of the store releases the lock it took on every
\* exit path (the lock is held by exactly the calls that are between their
\* Lock or RLock and their return, so a call that has returned holds
\* nothing: a Search cancelled in the middle of its scan and a
\* RemoveDocument of an absent id included), no call takes the lock while
\* it holds it (AddJSON takes it once, through AddDocument), no reachable
\* state is a deadlock (some pending call can always take a step), and
\* under fair scheduling every pending AddDocument, AddJSON,
\* RemoveDocument, Clear, Size and Search call eventually returns.
C30_LocksReleasedCallsReturn ==
    /\ [](/\ mu.r = Cardinality({p \in Procs : pc[p] \in ReadHeldAt})
          /\ (mu.w = "held") <=> (\E p \in Procs : pc[p] \in WriteHeldAt)
          /\ (mu.w = "pending") <=> (\E p \in Procs : pc[p] = "lock_wait")
          /\ Cardinality({p \in Procs : pc[p] \in WriteHeldAt \cup {"lock_wait"}}) <= 1
          /\ (mu.w = "held") => mu.r = 0)
    /\ [][\A p \in Procs :
            /\ (pc[p] \notin WriteHeldAt \cup ReadHeldAt \cup {"lock_wait"}
                    /\ pc'[p] \in WriteHeldAt \cup ReadHeldAt \cup {"lock_wait"})
                  => pc[p] \in AcquiringAt
            /\ (pc[p] \in WriteHeldAt \cup ReadHeldAt \cup {"lock_wait"})
                  => pc'[p] \notin AcquiringAt]_vars
    /\ []((\E p \in Procs : pc[p] # "idle") => (\E p \in Procs : pc[p] # "idle" /\ ~Blocked(p)))
    /\ \A p \in Procs : (pc[p] # "idle") ~> (pc[p] = "idle")

\* C30 witness: a Search cancelled in the middle of its scan, before the
\* second of two documents, is about to release the read lock while the
\* other caller, in RemoveDocument, waits for the readers to leave.
C30_Witness ==
    \E p, q \in Procs :
        /\ pc[p] = "r_unlock" /\ call[p].op = "Search"
        /\ ret[p] = Returned(NilResults, "ErrCanceled")
        /\ loc[p].i = 2 /\ loc[p].n = 2
        /\ pc[q] = "lock_wait" /\ call[q].op = "RemoveDocument"

====
